---- MODULE Spec2Model ----
(***************************************************************************)
(* The weather data acquisition and caching layer of the travel planner    *)
(* (src/src/service/WeatherService.js) as a state machine.                 *)
(*                                                                         *)
(* Time is in milliseconds, as Date.now() gives it.  A JavaScript string   *)
(* is a sequence of pieces: a place name is a sequence of its characters   *)
(* and a literal of the source is the sequence of its words, so lower-     *)
(* casing, trimming, template concatenation and String.includes are        *)
(* computed on the pieces.                                                 *)
(***************************************************************************)
EXTENDS Integers, Sequences, FiniteSets, TLC

(* ---------------------------------------------------------------------- *)
(* Program constants                                                      *)
(* ---------------------------------------------------------------------- *)
WEATHER_CACHE_DURATION == 30 * 60 * 1000
MAX_RETRY_ATTEMPTS == 3
RETRY_DELAY == 1000

(* ---------------------------------------------------------------------- *)
(* Bounds of the model                                                    *)
(* ---------------------------------------------------------------------- *)
\* top-level operations (fetcher calls, getWeatherData calls) started in a run
MaxOps == 2
\* the most samples of one day in a forecast payload
MaxSamples == 4
\* the calendar days a forecast payload spans
MaxDays == 6
\* getWeatherData and findNearbyCities calls started in a run
MaxGwdOps == 1
\* the largest maxAttempts argument of retryWithBackoff
MaxAttemptsArg == 4
\* times the clock advances on its own in a run
MaxTicks == 2
\* clock advances while calls overlap
MaxElapses == 1

(* ---------------------------------------------------------------------- *)
(* JavaScript values                                                      *)
(* ---------------------------------------------------------------------- *)
Undefined == [type |-> "undefined"]
Null == [type |-> "null"]
Str(s) == [type |-> "string", str |-> s]
Coords(lat, lon) == [type |-> "object", lat |-> lat, lon |-> lon]
Num(n) == [type |-> "number", num |-> n]
Array(items) == [type |-> "array", items |-> items]
\* { error: error.message }
ErrorShaped(message) == [type |-> "object", error |-> Str(message)]

\* the test that lets the empty string and 0 through
TruthyUnlessNullish(v) == v.type \notin {"undefined", "null"}

\* !v is false
Truthy(v) ==
    CASE v.type = "undefined" -> FALSE
      [] v.type = "null" -> FALSE
      [] v.type = "string" -> Len(v.str) > 0
      [] v.type = "number" -> v.num # 0
      [] OTHER -> TRUE

\* obj[field], undefined when the property is missing
Get(obj, field) == IF field \in DOMAIN obj THEN obj[field] ELSE Undefined

\* a && b
And(a, b) == IF Truthy(a) THEN b ELSE a

Min(S) == CHOOSE x \in S : \A y \in S : x <= y
Max(S) == CHOOSE x \in S : \A y \in S : x >= y

\* String.prototype.toLowerCase on the characters the inputs use
LowerChar(c) ==
    CASE c = "P" -> "p"
      [] c = "R" -> "r"
      [] OTHER -> c

ToLowerCase(s) == [i \in 1..Len(s) |-> LowerChar(s[i])]

IsWhiteSpace(c) == c = " "

\* String.prototype.trim
Trim(s) ==
    LET kept == {i \in 1..Len(s) : ~IsWhiteSpace(s[i])}
    IN  IF kept = {} THEN <<>> ELSE SubSeq(s, Min(kept), Max(kept))

Digit(d) ==
    CASE d = 0 -> "0" [] d = 1 -> "1" [] d = 2 -> "2" [] d = 3 -> "3"
      [] d = 4 -> "4" [] d = 5 -> "5" [] d = 6 -> "6" [] d = 7 -> "7"
      [] d = 8 -> "8" [] d = 9 -> "9"

RECURSIVE NumberToString(_)
NumberToString(n) ==
    IF n < 10 THEN <<Digit(n)>>
    ELSE NumberToString(n \div 10) \o <<Digit(n % 10)>>

\* `${v}` in a template literal
TemplateString(v) ==
    CASE v.type = "string" -> v.str
      [] v.type = "undefined" -> <<"undefined">>
      [] v.type = "null" -> <<"null">>
      [] v.type = "number" -> NumberToString(v.num)
      [] OTHER -> <<"[object Object]">>

\* String.prototype.includes
Includes(s, sub) ==
    \E i \in 1..(Len(s) - Len(sub) + 1) : SubSeq(s, i, i + Len(sub) - 1) = sub

EncodeChar(c) ==
    CASE c = " " -> "%20"
      [] c = "," -> "%2C"
      [] OTHER -> c

encodeURIComponent(s) == [i \in 1..Len(s) |-> EncodeChar(s[i])]

(* ---------------------------------------------------------------------- *)
(* Forecast aggregator                                                    *)
(* A sample is [dt, temp, pop, icon, description, wind]: dt in seconds,   *)
(* temp in tenths of a degree, pop in thousandths (Undefined when the     *)
(* field is missing), wind in tenths of m/s.                              *)
(* ---------------------------------------------------------------------- *)
\* the quotient truncated downwards instead
RoundDown(num, den) == num \div den

\* Math.round(num / den) for den > 0: halves round up
Round(num, den) == (2 * num + den) \div (2 * den)

\* new Date(dt * 1000).toISOString().split('T')[0]: the UTC calendar day,
\* as the number of the day since 1970-01-01
UTCDate(dt) == dt \div 86400

\* toLocaleDateString('en-US', {weekday: 'short'}) of that day
Weekday(date) ==
    LET names == <<"Thu", "Fri", "Sat", "Sun", "Mon", "Tue", "Wed">>
    IN  names[(date % 7) + 1]

\* item.pop || 0
PopOrZero(item) == IF item.pop = Undefined THEN 0 ELSE item.pop.num

\* every sample put in a bucket of its own
AddSampleAlwaysNew(dailyForecasts, item) ==
    Append(dailyForecasts,
           [date |-> UTCDate(item.dt), day |-> Weekday(UTCDate(item.dt)),
            temps |-> <<item.temp>>, precipitation |-> <<PopOrZero(item)>>,
            weatherIcons |-> <<item.icon>>, descriptions |-> <<item.description>>,
            winds |-> <<item.wind>>])

\* the forEach body of lines 286-307: dailyForecasts after one more sample,
\* kept in the insertion order Object.values gives
AddSample(dailyForecasts, item) ==
    LET day == UTCDate(item.dt)
        at == {j \in 1..Len(dailyForecasts) : dailyForecasts[j].date = day}
        fresh == [date |-> day, day |-> Weekday(day), temps |-> <<>>,
                  precipitation |-> <<>>, weatherIcons |-> <<>>,
                  descriptions |-> <<>>, winds |-> <<>>]
        all == IF at = {} THEN Append(dailyForecasts, fresh) ELSE dailyForecasts
        j == IF at = {} THEN Len(all) ELSE CHOOSE k \in at : TRUE
    IN  [all EXCEPT ![j] =
            [@ EXCEPT !.temps = Append(@, item.temp),
                      !.precipitation = Append(@, PopOrZero(item)),
                      !.weatherIcons = Append(@, item.icon),
                      !.descriptions = Append(@, item.description),
                      !.winds = Append(@, item.wind)]]

RECURSIVE GroupByDay(_, _)
GroupByDay(list, dailyForecasts) ==
    IF list = <<>> THEN dailyForecasts
    ELSE GroupByDay(Tail(list), AddSample(dailyForecasts, Head(list)))

\* among the most frequent values the one met last
MostFrequentLast(values) ==
    LET count(v) == Cardinality({i \in 1..Len(values) : values[i] = v})
        best == Max({count(values[i]) : i \in 1..Len(values)})
        last == Max({i \in 1..Len(values) : count(values[i]) = best})
    IN  values[last]

\* Object.entries(frequency).sort((a, b) => b[1] - a[1])[0][0]: the entries
\* are in first-occurrence order and the sort is stable
MostFrequent(values) ==
    LET count(v) == Cardinality({i \in 1..Len(values) : values[i] = v})
        best == Max({count(values[i]) : i \in 1..Len(values)})
        first == Min({i \in 1..Len(values) : count(values[i]) = best})
    IN  values[first]

RECURSIVE Sum(_)
Sum(s) == IF s = <<>> THEN 0 ELSE Head(s) + Sum(Tail(s))

Range(s) == {s[i] : i \in 1..Len(s)}

\* the day's extremes taken for each other
SummaryExtremesSwapped(day) ==
    [date |-> day.date,
     day |-> day.day,
     high |-> Round(Min(Range(day.temps)), 10),
     low |-> Round(Max(Range(day.temps)), 10),
     precipitation |-> Round(Max(Range(day.precipitation)) * 100, 1000),
     icon |-> MostFrequent(day.weatherIcons),
     description |-> MostFrequent(day.descriptions),
     wind |-> Round(Sum(day.winds) * 36, Len(day.winds) * 10 * 10)]

\* the map callback of lines 310-337
Summary(day) ==
    [date |-> day.date,
     day |-> day.day,
     high |-> Round(Max(Range(day.temps)), 10),
     low |-> Round(Min(Range(day.temps)), 10),
     precipitation |-> Round(Max(Range(day.precipitation)) * 100, 1000),
     icon |-> MostFrequent(day.weatherIcons),
     description |-> MostFrequent(day.descriptions),
     wind |-> Round(Sum(day.winds) * 36, Len(day.winds) * 10 * 10)]

\* the aggregator without its guard for a list that is no array
processForecastDataUnguarded(forecastData) ==
    IF ~Truthy(forecastData) THEN Array(<<>>)
    ELSE IF "list" \notin DOMAIN forecastData \/ forecastData.list.type # "array"
    THEN Undefined
    ELSE LET dailyForecasts == GroupByDay(forecastData.list.items, <<>>)
             summaries == [i \in 1..Len(dailyForecasts) |-> Summary(dailyForecasts[i])]
         IN  Array(SubSeq(summaries, 1, Min({5, Len(summaries)})))

processForecastData(forecastData) ==
    IF \/ ~Truthy(forecastData)
       \/ "list" \notin DOMAIN forecastData
       \/ ~Truthy(forecastData.list)
       \/ forecastData.list.type # "array"
    THEN Array(<<>>)
    ELSE LET dailyForecasts == GroupByDay(forecastData.list.items, <<>>)
             summaries == [i \in 1..Len(dailyForecasts) |-> Summary(dailyForecasts[i])]
         IN  Array(SubSeq(summaries, 1, Min({5, Len(summaries)})))

(* ---------------------------------------------------------------------- *)
(* Error messages                                                         *)
(* ---------------------------------------------------------------------- *)
\* the literal 'not found' of line 369
NOT_FOUND == <<"not", "found">>

\* `Location "${location}" not found`
NotFoundMessage(location) ==
    <<"Location", "\"">> \o TemplateString(location) \o <<"\"", "not", "found">>

InvalidKeyMessage == <<"Invalid", "API", "key">>

RateLimitMessage == <<"API", "rate", "limit", "exceeded">>

\* `Weather API error: ${errorMessage}`
UpstreamMessage(errorMessage) == <<"Weather", "API", "error:">> \o errorMessage

\* `Location "${location}" not found. Did you mean one of these?`
DidYouMeanMessage(location) ==
    <<"Location", "\"">> \o TemplateString(location)
        \o <<"\"", "not", "found", ".", "Did", "you", "mean", "one", "of", "these?">>

\* location.toLowerCase is not a function
NotAFunctionMessage == <<"location.toLowerCase", "is", "not", "a", "function">>

Error(message) == [message |-> message]

(* ---------------------------------------------------------------------- *)
(* The network                                                            *)
(* A response is what fetch() and then response.json() give: fetch        *)
(* rejects, or resolves to [ok, status, statusText, json], json being     *)
(* Undefined when the body does not parse.                                *)
(* ---------------------------------------------------------------------- *)
FetchRejects == [kind |-> "rejects", message |-> <<"Failed", "to", "fetch">>]

Http(ok, status, statusText, json) ==
    [kind |-> "http", ok |-> ok, status |-> status, statusText |-> statusText, json |-> json]

UnparsableMessage == <<"Unexpected", "end", "of", "JSON", "input">>

ErrorResponses ==
    { Http(FALSE, 404, <<"Not", "Found">>,
           [type |-> "object", message |-> <<"city", "not", "found">>]),
      Http(FALSE, 401, <<"Unauthorized">>,
           [type |-> "object", message |-> <<"Invalid", "API", "key.">>]),
      Http(FALSE, 429, <<"Too", "Many", "Requests">>, Undefined),
      Http(FALSE, 500, <<"Internal", "Server", "Error">>, Undefined),
      Http(FALSE, 502, <<"Bad", "Gateway">>,
           [type |-> "object", message |-> <<"upstream", "host", "not", "found">>]) }

CurrentBodies ==
    { [type |-> "object", name |-> "w1"], [type |-> "object", name |-> "w2"] }

Sample(dt, temp, pop, icon, description, wind) ==
    [dt |-> dt, temp |-> temp, pop |-> pop, icon |-> icon,
     description |-> description, wind |-> wind]

ForecastPayloads ==
    { [type |-> "object",
       list |-> Array(<< Sample(3600, 104, Num(100), "01d", "clear sky", 20),
                         Sample(90000, 155, Undefined, "02d", "few clouds", 45),
                         Sample(7200, 96, Num(555), "01d", "clear sky", 35) >>)],
      [type |-> "object", cod |-> "200"] }

\* what fn() may do for a caller of retryWithBackoff
OperationAnswers ==
    { [kind |-> "resolves", value |-> [type |-> "object", name |-> "v1"]],
      [kind |-> "resolves", value |-> [type |-> "object", name |-> "v2"]],
      [kind |-> "rejects", message |-> <<"e1">>],
      [kind |-> "rejects", message |-> <<"e2">>] }

Responses(fn) ==
    IF fn = "operation" THEN OperationAnswers ELSE
    {FetchRejects} \cup ErrorResponses
        \cup {Http(TRUE, 200, <<"OK">>, Undefined)}
        \cup { Http(TRUE, 200, <<"OK">>, b) :
                 b \in IF fn = "getCurrentWeather" THEN CurrentBodies ELSE ForecastPayloads }

\* lines 101-115 and 187-201: the error a non-2xx response is turned into
ClassifyError(response, location) ==
    LET errorData == IF response.json = Undefined THEN [type |-> "object"] ELSE response.json
        errorMessage == IF "message" \in DOMAIN errorData /\ Len(errorData.message) > 0
                        THEN errorData.message ELSE response.statusText
    IN  CASE response.status = 404 -> Error(NotFoundMessage(location))
          [] response.status = 401 -> Error(InvalidKeyMessage)
          [] response.status = 429 -> Error(RateLimitMessage)
          [] OTHER -> Error(UpstreamMessage(errorMessage))

(* ---------------------------------------------------------------------- *)
(* State                                                                  *)
(* ---------------------------------------------------------------------- *)
VARIABLES
    now,             \* Date.now()
    weatherCache,    \* [current, forecast]: the in-memory mappings key -> entry
    sessionStorage,  \* the two persisted items
    storageFails,    \* whether sessionStorage.setItem throws in this session
    calls,           \* the fetcher calls in flight, one per slot
    gwd,             \* the getWeatherData call in flight
    ops,             \* top-level operations started so far
    ticks            \* clock advances so far

vars == <<now, weatherCache, sessionStorage, storageFails, calls, gwd, ops, ticks>>

\* slot t1 runs getWeatherData's getCurrentWeather, slot t2 its getWeatherForecast
Slots == {"t1", "t2"}

(* ---------------------------------------------------------------------- *)
(* Cache store                                                            *)
(* ---------------------------------------------------------------------- *)
EmptyMap == [k \in {} |-> Undefined]

\* the lookup that falls back on the other namespace
LookupEither(map, key) ==
    IF key \in DOMAIN map THEN map[key]
    ELSE IF key \in DOMAIN weatherCache.current THEN weatherCache.current[key]
    ELSE IF key \in DOMAIN weatherCache.forecast THEN weatherCache.forecast[key]
    ELSE Undefined

\* map[key]
Lookup(map, key) == IF key \in DOMAIN map THEN map[key] ELSE Undefined

\* the in-memory write made only when the persisted one will succeed
PutUnlessStorageFails(map, key, entry) ==
    IF storageFails THEN map
    ELSE [k \in DOMAIN map \cup {key} |-> IF k = key THEN entry ELSE map[k]]

\* the write that loses what other fetches wrote: the mapping becomes the
\* one entry
PutAlone(map, key, entry) == [k \in {key} |-> entry]

\* the write that drops the entries older than the validity window
PutEvicting(map, key, entry) ==
    [k \in {k \in DOMAIN map : now - map[k].timestamp < WEATHER_CACHE_DURATION} \cup {key} |->
        IF k = key THEN entry ELSE map[k]]

\* map[key] = entry
Put(map, key, entry) ==
    [k \in DOMAIN map \cup {key} |-> IF k = key THEN entry ELSE map[k]]

\* JSON.stringify of a mapping: the text that parses back to it
Stringify(map) == [type |-> "string", wellFormed |-> TRUE, value |-> map]

MalformedText == [type |-> "string", wellFormed |-> FALSE]

initializeCache(storage) ==
    LET storedCurrentCache == storage.weatherCache_current
        storedForecastCache == storage.weatherCache_forecast
        throws(item) == item # Null /\ ~item.wellFormed
    IN  IF throws(storedCurrentCache) \/ throws(storedForecastCache)
        THEN [current |-> EmptyMap, forecast |-> EmptyMap]
        ELSE [current |-> IF storedCurrentCache # Null
                          THEN storedCurrentCache.value ELSE EmptyMap,
              forecast |-> IF storedForecastCache # Null
                           THEN storedForecastCache.value ELSE EmptyMap]

\* the in-memory write not mirrored
updateSessionCacheSkips(storage, type, cache) == storage

\* updateSessionCache(type, cache): the storage after it
updateSessionCache(storage, type, cache) ==
    IF storageFails THEN storage
    ELSE IF type = "current"
         THEN [storage EXCEPT !.weatherCache_current = Stringify(cache)]
         ELSE [storage EXCEPT !.weatherCache_forecast = Stringify(cache)]

\* the freshness test with the bound included
CacheHitInclusive(cachedData, t) ==
    cachedData # Undefined /\ t - cachedData.timestamp <= WEATHER_CACHE_DURATION

\* lines 83 and 169: the entry is served without a network call
CacheHit(cachedData, t) ==
    cachedData # Undefined /\ t - cachedData.timestamp < WEATHER_CACHE_DURATION

(* ---------------------------------------------------------------------- *)
(* The fetchers: getCurrentWeather and getWeatherForecast                 *)
(* A call is idle, awaiting the network ("fetch"), awaiting the backoff   *)
(* timer ("backoff") or settled.  startedAt, fetches, failures, waits and *)
(* thrown record what the call did: when it began, the attempts it made   *)
(* (each one network call), how many of them threw, the delays it asked   *)
(* setTimeout for and the error its last failed attempt threw.  id numbers *)
(* the calls of callers that overlap, and after holds the ids of the      *)
(* calls that had settled when this one began.                            *)
(* ---------------------------------------------------------------------- *)
IdleCall ==
    [pc |-> "idle", fn |-> "none", owner |-> "none", location |-> Undefined,
     useRetry |-> FALSE, maxAttempts |-> 0, delay |-> 0,
     normalizedLocation |-> Undefined, cachedData |-> Undefined,
     attempt |-> 0, lastError |-> Undefined, apiUrl |-> Undefined,
     response |-> Undefined, wakeAt |-> 0, result |-> Undefined,
     startedAt |-> 0, fetches |-> 0, failures |-> 0, waits |-> <<>>,
     thrown |-> Undefined, id |-> 0, after |-> {}]

Fulfilled(value) == [state |-> "fulfilled", value |-> value]
Rejected(reason) == [state |-> "rejected", reason |-> reason]

Settle(call, result) == [call EXCEPT !.pc = "settled", !.result = result]

\* lines 93-97 and 179-183
ApiUrl(fn, location, normalizedLocation) ==
    LET endpoint == IF fn = "getCurrentWeather" THEN "weather" ELSE "forecast"
    IN  IF /\ location.type = "object"
           /\ Truthy(Num(location.lat))
           /\ Truthy(Num(location.lon))
        THEN [endpoint |-> endpoint, by |-> "coordinates",
              lat |-> NumberToString(location.lat), lon |-> NumberToString(location.lon)]
        ELSE [endpoint |-> endpoint, by |-> "name",
              q |-> encodeURIComponent(normalizedLocation)]

\* the attempt that joins a request already in flight for the same URL
\* and issues none of its own
IssueFetchJoining(call) ==
    LET apiUrl == ApiUrl(call.fn, call.location, call.normalizedLocation.str)
    IN  [call EXCEPT !.pc = "fetch",
                     !.apiUrl = apiUrl,
                     !.fetches = IF \E s \in Slots : calls[s].pc = "fetch"
                                                      /\ calls[s].apiUrl = apiUrl
                                 THEN @ ELSE @ + 1]

\* fetchWeatherData / fetchForecastData up to `await fetch(apiUrl)`
IssueFetch(call) ==
    [call EXCEPT !.pc = "fetch",
                 !.apiUrl = ApiUrl(call.fn, call.location, call.normalizedLocation.str),
                 !.fetches = @ + 1]

\* the normalisation that lower-cases and keeps the outer whitespace
NormalizeLocationNoTrim(fn, location) ==
    IF location.type = "string" THEN Str(ToLowerCase(location.str))
    ELSE IF fn = "getCurrentWeather" THEN Undefined
    ELSE Str(NumberToString(location.lat) \o <<",">> \o NumberToString(location.lon))

\* lines 78-79 and 162-165; Undefined when the normalisation throws
NormalizeLocation(fn, location) ==
    IF location.type = "string" THEN Str(Trim(ToLowerCase(location.str)))
    ELSE IF fn = "getCurrentWeather" THEN Undefined
    ELSE Str(NumberToString(location.lat) \o <<",">> \o NumberToString(location.lon))

\* the call after its synchronous start, lines 72-99 and 156-185
Begin(fn, location, useRetry, owner) ==
    LET call == [IdleCall EXCEPT !.fn = fn, !.owner = owner, !.location = location,
                                 !.useRetry = useRetry,
                                 !.maxAttempts = MAX_RETRY_ATTEMPTS,
                                 !.delay = RETRY_DELAY, !.startedAt = now]
        normalizedLocation == NormalizeLocation(fn, location)
        namespace == IF fn = "getCurrentWeather"
                     THEN weatherCache.current ELSE weatherCache.forecast
    IN  IF ~Truthy(location) THEN Settle(call, Fulfilled(Null))
        ELSE IF normalizedLocation = Undefined
        THEN Settle(call, Rejected(Error(NotAFunctionMessage)))
        ELSE LET cachedData == Lookup(namespace, normalizedLocation.str)
                 looked == [call EXCEPT !.normalizedLocation = normalizedLocation,
                                        !.cachedData = cachedData]
             IN  IF CacheHit(cachedData, now)
                 THEN Settle(looked, Fulfilled(cachedData.data))
                 ELSE IssueFetch([looked EXCEPT !.attempt = IF useRetry THEN 1 ELSE 0])

\* the run that takes the body of an error response for data
AttemptKeepsErrorBody(call, response) ==
    IF response.kind = "rejects"
    THEN [threw |-> TRUE, error |-> Error(response.message)]
    ELSE IF call.fn = "operation" THEN [threw |-> FALSE, data |-> response.value]
    ELSE IF response.json = Undefined
    THEN [threw |-> TRUE, error |-> Error(UnparsableMessage)]
    ELSE [threw |-> FALSE, data |-> response.json]

\* the run that rejects a forecast body without a sample list
AttemptRequiresList(call, response) ==
    IF call.fn = "operation"
    THEN IF response.kind = "rejects"
         THEN [threw |-> TRUE, error |-> Error(response.message)]
         ELSE [threw |-> FALSE, data |-> response.value]
    ELSE IF response.kind = "rejects"
    THEN [threw |-> TRUE, error |-> Error(response.message)]
    ELSE IF ~response.ok
    THEN [threw |-> TRUE, error |-> ClassifyError(response, call.location)]
    ELSE IF response.json = Undefined
    THEN [threw |-> TRUE, error |-> Error(UnparsableMessage)]
    ELSE IF call.fn = "getWeatherForecast" /\ processForecastData(response.json) = Array(<<>>)
    THEN [threw |-> TRUE, error |-> Error(<<"Invalid", "forecast", "data">>)]
    ELSE [threw |-> FALSE, data |-> response.json]

\* what one run of fn ends in once the answer is in: the error it throws,
\* or the body it caches and returns (fetchWeatherData, fetchForecastData);
\* the operation handed to retryWithBackoff by another caller rejects or
\* resolves as the answer says
Attempt(call, response) ==
    IF call.fn = "operation"
    THEN IF response.kind = "rejects"
         THEN [threw |-> TRUE, error |-> Error(response.message)]
         ELSE [threw |-> FALSE, data |-> response.value]
    ELSE IF response.kind = "rejects"
    THEN [threw |-> TRUE, error |-> Error(response.message)]
    ELSE IF ~response.ok
    THEN [threw |-> TRUE, error |-> ClassifyError(response, call.location)]
    ELSE IF response.json = Undefined
    THEN [threw |-> TRUE, error |-> Error(UnparsableMessage)]
    ELSE [threw |-> FALSE, data |-> response.json]

\* the backoff with the exponent one too large
BackoffDelayOffByOne(delay, attempt) == delay * 2 ^ attempt

\* line 57
BackoffDelay(delay, attempt) == delay * 2 ^ (attempt - 1)

\* the test that lets one attempt too many through
RetryAgainInclusive(attempt, maxAttempts) == attempt <= maxAttempts

\* line 56: another attempt follows the failed one
RetryAgain(attempt, maxAttempts) == attempt < maxAttempts

\* the first error kept instead of the last
RecordErrorKeepFirst(lastError, error) == IF lastError = Undefined THEN error ELSE lastError

\* line 54
RecordError(lastError, error) == error

\* the catch without the stale fallback
OnFailureNoFallback(cachedData, error) == Fulfilled(ErrorShaped(error.message))

\* lines 137-147 and 227-237: the catch of the fetcher
OnFailure(cachedData, error) ==
    IF cachedData # Undefined
    THEN Fulfilled(cachedData.data)
    ELSE Fulfilled(ErrorShaped(error.message))

\* the forecast entry holding the raw payload in place of its summary
NewEntryUnaggregated(fn, data, t) ==
    IF fn = "getCurrentWeather"
    THEN [timestamp |-> t, data |-> data]
    ELSE [timestamp |-> t, data |-> data, rawData |-> data]

\* lines 119-128 and 203-218: the entry written for a 2xx body
NewEntry(fn, data, t) ==
    IF fn = "getCurrentWeather"
    THEN [timestamp |-> t, data |-> data]
    ELSE [timestamp |-> t, data |-> processForecastData(data), rawData |-> data]

\* the catch that reads the cache again when the error arrives
ThrowReadsCache(call, error) ==
    IF call.fn = "operation" THEN Settle(call, Rejected(error))
    ELSE Settle(call,
                OnFailure(Lookup(IF call.fn = "getCurrentWeather"
                                 THEN weatherCache.current ELSE weatherCache.forecast,
                                 call.normalizedLocation.str),
                          error))

\* an error leaves fn or retryWithBackoff: the fetcher catches it; the
\* promise of a bare retryWithBackoff rejects with it
Throw(call, error) ==
    IF call.fn = "operation" THEN Settle(call, Rejected(error))
    ELSE Settle(call, OnFailure(call.cachedData, error))

\* the retry that gives up at once on a missing place or a refused key
AfterThrowTransientOnly(call, error) ==
    LET failed == [call EXCEPT !.thrown = error, !.failures = @ + 1]
    IN  IF ~call.useRetry THEN Throw(failed, error)
        ELSE LET lastError == RecordError(call.lastError, error)
                 kept == [failed EXCEPT !.lastError = lastError]
             IN  IF /\ RetryAgain(call.attempt, call.maxAttempts)
                    /\ ~Includes(error.message, NOT_FOUND)
                    /\ error.message # InvalidKeyMessage
                 THEN LET backoffDelay == BackoffDelay(call.delay, call.attempt)
                      IN  [kept EXCEPT !.pc = "backoff",
                                       !.wakeAt = now + backoffDelay,
                                       !.waits = Append(@, backoffDelay)]
                 ELSE Throw(kept, lastError)

\* the call after a failed attempt, lines 52-63: backoff, or the error leaves
AfterThrow(call, error) ==
    LET failed == [call EXCEPT !.thrown = error, !.failures = @ + 1]
    IN  IF ~call.useRetry THEN Throw(failed, error)
        ELSE LET lastError == RecordError(call.lastError, error)
                 kept == [failed EXCEPT !.lastError = lastError]
             IN  IF RetryAgain(call.attempt, call.maxAttempts)
                 THEN LET backoffDelay == BackoffDelay(call.delay, call.attempt)
                      IN  [kept EXCEPT !.pc = "backoff",
                                       !.wakeAt = now + backoffDelay,
                                       !.waits = Append(@, backoffDelay)]
                 ELSE Throw(kept, lastError)

\* retryWithBackoff(fn, maxAttempts, delay) up to the first `await fn()`
BeginRetry(maxAttempts, delay) ==
    [IdleCall EXCEPT !.pc = "fetch", !.fn = "operation", !.owner = "user",
                     !.useRetry = TRUE, !.maxAttempts = maxAttempts, !.delay = delay,
                     !.attempt = 1, !.fetches = 1, !.startedAt = now]

(* ---------------------------------------------------------------------- *)
(* findNearbyCities and getWeatherData                                    *)
(* ---------------------------------------------------------------------- *)
GeoCandidates ==
    << [type |-> "object", name |-> "Paris", local_names |-> "fr", lat |-> 48, lon |-> 2,
        country |-> "FR", state |-> "Ile-de-France"],
       [type |-> "object", name |-> "Paris", local_names |-> "en", lat |-> 33, lon |-> -95,
        country |-> "US"] >>

GeoResponses ==
    { FetchRejects,
      Http(FALSE, 401, <<"Unauthorized">>, Undefined),
      Http(TRUE, 200, <<"OK">>, Undefined),
      Http(TRUE, 200, <<"OK">>, [type |-> "object", cod |-> "200"]),
      Http(TRUE, 200, <<"OK">>, Array(<<>>)),
      Http(TRUE, 200, <<"OK">>, Array(GeoCandidates)) }

\* lines 259-265
MapCity(city) ==
    [name |-> Get(city, "name"), country |-> Get(city, "country"),
     state |-> Get(city, "state"), lat |-> Get(city, "lat"), lon |-> Get(city, "lon")]

\* an empty list handed back as it is
findNearbyCitiesResultEmptyList(response) ==
    IF response.kind = "rejects" THEN Null
    ELSE IF ~response.ok THEN Null
    ELSE IF response.json = Undefined THEN Null
    ELSE IF response.json.type = "array"
    THEN Array([i \in 1..Len(response.json.items) |-> MapCity(response.json.items[i])])
    ELSE Null

\* lines 252-269: what findNearbyCities returns for a response
findNearbyCitiesResult(response) ==
    IF response.kind = "rejects" THEN Null
    ELSE IF ~response.ok THEN Null
    ELSE IF response.json = Undefined THEN Null
    ELSE IF response.json.type = "array" /\ Len(response.json.items) > 0
    THEN Array([i \in 1..Len(response.json.items) |-> MapCity(response.json.items[i])])
    ELSE Null

IdleGwd ==
    [pc |-> "idle", location |-> Undefined, current |-> Undefined, forecast |-> Undefined,
     currentError |-> Undefined, forecastError |-> Undefined, result |-> Undefined,
     geoCalls |-> 0, geoResponse |-> Undefined]

GwdResult(current, forecast, alternatives, error) ==
    [type |-> "object", current |-> current, forecast |-> forecast,
     alternatives |-> alternatives, error |-> error]

SettleGwd(g, result) == [g EXCEPT !.pc = "settled", !.result = result]

\* line 369
IndicatesNotFound(currentError) == Includes(currentError.str, NOT_FOUND)

\* line 367
BothFailed(currentError, forecastError) == Truthy(And(currentError, forecastError))

\* the forecast's message reported instead
ReportedErrorForecast(currentError, forecastError) == forecastError

\* line 382: the message reported when both fetchers failed
ReportedError(currentError, forecastError) == currentError

\* two fetchers that returned nothing taken for two failures
CombineSignalsMissing(g, current, forecast) ==
    LET currentError == And(current, Get(current, "error"))
        forecastError == And(forecast, Get(forecast, "error"))
        seen == [g EXCEPT !.current = current, !.forecast = forecast,
                          !.currentError = currentError, !.forecastError = forecastError]
    IN  IF current = Null /\ forecast = Null
        THEN SettleGwd(seen, GwdResult(Null, Null, Undefined,
                                       Str(<<"Location", "is", "required">>)))
        ELSE IF BothFailed(currentError, forecastError)
        THEN IF IndicatesNotFound(currentError)
             THEN [seen EXCEPT !.pc = "geo", !.geoCalls = @ + 1]
             ELSE SettleGwd(seen, GwdResult(Null, Null, Undefined,
                                            ReportedError(currentError, forecastError)))
        ELSE SettleGwd(seen, GwdResult(current, forecast, Undefined, Null))

\* lines 363-385, once Promise.all has fulfilled with [current, forecast]
Combine(g, current, forecast) ==
    LET currentError == And(current, Get(current, "error"))
        forecastError == And(forecast, Get(forecast, "error"))
        seen == [g EXCEPT !.current = current, !.forecast = forecast,
                          !.currentError = currentError, !.forecastError = forecastError]
    IN  IF BothFailed(currentError, forecastError)
        THEN IF IndicatesNotFound(currentError)
             THEN [seen EXCEPT !.pc = "geo", !.geoCalls = @ + 1]
             ELSE SettleGwd(seen, GwdResult(Null, Null, Undefined,
                                            ReportedError(currentError, forecastError)))
        ELSE SettleGwd(seen, GwdResult(current, forecast, Undefined, Null))

\* the candidates dropped
AfterResolverDropsAlternatives(g, alternatives) ==
    SettleGwd(g, GwdResult(Null, Null, Undefined,
                           ReportedError(g.currentError, g.forecastError)))

\* lines 372-382, once findNearbyCities has returned
AfterResolver(g, alternatives) ==
    IF Truthy(alternatives) /\ Len(alternatives.items) > 0
    THEN SettleGwd(g, GwdResult(Null, Null, alternatives,
                                Str(DidYouMeanMessage(g.location))))
    ELSE SettleGwd(g, GwdResult(Null, Null, Undefined,
                                ReportedError(g.currentError, g.forecastError)))

\* the rejection of a fetcher passed on to the caller
CaughtRethrows(g, error) == [g EXCEPT !.pc = "rejected", !.result = Rejected(error)]

\* lines 387-390
Caught(g, error) == SettleGwd(g, GwdResult(Null, Null, Undefined, Str(error.message)))

\* getWeatherData resumes as soon as Promise.all settles: it rejects with the
\* first rejection and fulfils when both fetchers have
AfterJoin(cs, g) ==
    LET rejected(t) == cs[t].pc = "settled" /\ cs[t].result.state = "rejected"
        fulfilled(t) == cs[t].pc = "settled" /\ cs[t].result.state = "fulfilled"
    IN  IF g.pc # "join" THEN g
        ELSE IF rejected("t1") THEN Caught(g, cs["t1"].result.reason)
        ELSE IF rejected("t2") THEN Caught(g, cs["t2"].result.reason)
        ELSE IF fulfilled("t1") /\ fulfilled("t2")
        THEN Combine(g, cs["t1"].result.value, cs["t2"].result.value)
        ELSE g

(* ---------------------------------------------------------------------- *)
(* Inputs                                                                 *)
(* ---------------------------------------------------------------------- *)
LocationInputs ==
    { Str(<<" ", "P">>), Str(<<"p">>), Coords(4, 2), Coords(0, 2), Str(<<>>), Undefined }

\* what a page load may find persisted by an earlier one in the same tab
StoredCurrent == (<<"p">> :> [timestamp |-> 0, data |-> [type |-> "object", name |-> "w0"]])

StoredPayload == [type |-> "object", list |-> Array(<<Sample(3600, 218, Num(0), "10d", "rain", 10)>>)]

StoredForecast ==
    (<<"p">> :> [timestamp |-> 0, data |-> processForecastData(StoredPayload),
                 rawData |-> StoredPayload])

InitialStorages ==
    { [weatherCache_current |-> Null, weatherCache_forecast |-> Null],
      [weatherCache_current |-> Stringify(StoredCurrent), weatherCache_forecast |-> Null],
      [weatherCache_current |-> Stringify(StoredCurrent),
       weatherCache_forecast |-> Stringify(StoredForecast)] }

\* how far the clock may advance at once
TickSteps == {1, WEATHER_CACHE_DURATION - 1}

\* the delay arguments of retryWithBackoff: the default and another
DelayArgs == {RETRY_DELAY, 250}

(* ---------------------------------------------------------------------- *)
(* Actions                                                                *)
(* ---------------------------------------------------------------------- *)
AllIdle == gwd.pc = "idle" /\ \A t \in Slots : calls[t].pc = "idle"

Init ==
    /\ now = 0
    /\ sessionStorage = [weatherCache_current |-> Null, weatherCache_forecast |-> Null]
    /\ weatherCache = initializeCache(sessionStorage)
    /\ storageFails = FALSE
    /\ calls = [t \in Slots |-> IdleCall]
    /\ gwd = IdleGwd
    /\ ops = 0
    /\ ticks = 0

\* a page load over what an earlier one persisted, at once or 30 minutes later
InitGwd ==
    /\ now \in {0, WEATHER_CACHE_DURATION}
    /\ sessionStorage \in InitialStorages
    /\ weatherCache = initializeCache(sessionStorage)
    /\ storageFails = FALSE
    /\ calls = [t \in Slots |-> IdleCall]
    /\ gwd = IdleGwd
    /\ ops = 0
    /\ ticks = 0

\* a caller calls getCurrentWeather or getWeatherForecast
CallFetcher(fn, location, useRetry) ==
    /\ AllIdle
    /\ ops < MaxOps
    /\ calls' = [calls EXCEPT !["t1"] = Begin(fn, location, useRetry, "user")]
    /\ ops' = ops + 1
    /\ UNCHANGED <<now, weatherCache, sessionStorage, storageFails, gwd, ticks>>

\* a caller calls retryWithBackoff on an operation of its own
CallRetry(maxAttempts, delay) ==
    /\ AllIdle
    /\ ops < MaxOps
    /\ calls' = [calls EXCEPT !["t1"] = BeginRetry(maxAttempts, delay)]
    /\ ops' = ops + 1
    /\ UNCHANGED <<now, weatherCache, sessionStorage, storageFails, gwd, ticks>>

\* a caller calls getWeatherData
CallGetWeatherData(location) ==
    /\ AllIdle
    /\ ops < MaxGwdOps
    /\ LET cs == [t \in Slots |->
                    IF t = "t1" THEN Begin("getCurrentWeather", location, TRUE, "gwd")
                    ELSE Begin("getWeatherForecast", location, TRUE, "gwd")]
       IN  /\ calls' = cs
           /\ gwd' = AfterJoin(cs, [IdleGwd EXCEPT !.pc = "join", !.location = location])
    /\ ops' = ops + 1
    /\ UNCHANGED <<now, weatherCache, sessionStorage, storageFails, ticks>>

\* the network answers the request of the call in slot t
Respond(t, response) ==
    /\ calls[t].pc = "fetch"
    /\ LET call == [calls[t] EXCEPT !.response = response]
           attempt == Attempt(call, response)
       IN  IF attempt.threw
           THEN /\ calls' = [calls EXCEPT ![t] = AfterThrow(call, attempt.error)]
                /\ UNCHANGED <<weatherCache, sessionStorage>>
           ELSE IF call.fn = "operation"
           THEN /\ calls' = [calls EXCEPT ![t] = Settle(call, Fulfilled(attempt.data))]
                /\ UNCHANGED <<weatherCache, sessionStorage>>
           ELSE LET entry == NewEntry(call.fn, attempt.data, now)
                    key == call.normalizedLocation.str
                IN  /\ calls' = [calls EXCEPT ![t] = Settle(call, Fulfilled(entry.data))]
                    /\ IF call.fn = "getCurrentWeather"
                       THEN LET cache == Put(weatherCache.current, key, entry)
                            IN  /\ weatherCache' = [weatherCache EXCEPT !.current = cache]
                                /\ sessionStorage' =
                                     updateSessionCache(sessionStorage, "current", cache)
                       ELSE LET cache == Put(weatherCache.forecast, key, entry)
                            IN  /\ weatherCache' = [weatherCache EXCEPT !.forecast = cache]
                                /\ sessionStorage' =
                                     updateSessionCache(sessionStorage, "forecast", cache)
    /\ gwd' = AfterJoin(calls', gwd)
    /\ UNCHANGED <<now, storageFails, ops, ticks>>

\* the backoff timer of the call in slot t fires, at its time or later: the
\* next attempt starts
TimerFire(t) ==
    /\ calls[t].pc = "backoff"
    /\ now' = Max({now, calls[t].wakeAt})
    /\ calls' = [calls EXCEPT ![t] =
                   IF calls[t].fn = "operation"
                   THEN [calls[t] EXCEPT !.pc = "fetch", !.attempt = @ + 1,
                                         !.fetches = @ + 1]
                   ELSE IssueFetch([calls[t] EXCEPT !.attempt = @ + 1])]
    /\ UNCHANGED <<weatherCache, sessionStorage, storageFails, gwd, ops, ticks>>

\* the geocoding endpoint answers findNearbyCities
GeoRespond(response) ==
    /\ gwd.pc = "geo"
    /\ gwd' = AfterResolver([gwd EXCEPT !.geoResponse = response],
                             findNearbyCitiesResult(response))
    /\ UNCHANGED <<now, weatherCache, sessionStorage, storageFails, calls, ops, ticks>>

\* the caller takes the result of its fetcher call; a call nobody awaits ends
Return(t) ==
    /\ calls[t].pc = "settled"
    /\ calls[t].owner # "gwd"
    /\ calls' = [calls EXCEPT ![t] = IdleCall]
    /\ UNCHANGED <<now, weatherCache, sessionStorage, storageFails, gwd, ops, ticks>>

\* the caller takes the result of getWeatherData; a fetcher still running goes on
ReturnGwd ==
    /\ gwd.pc = "settled"
    /\ gwd' = IdleGwd
    /\ calls' = [t \in Slots |->
                   IF calls[t].pc = "settled" THEN IdleCall
                   ELSE [calls[t] EXCEPT !.owner = "none"]]
    /\ UNCHANGED <<now, weatherCache, sessionStorage, storageFails, ops, ticks>>

\* time passes between two operations
Tick(d) ==
    /\ AllIdle
    /\ ticks < MaxTicks
    /\ now' = now + d
    /\ ticks' = ticks + 1
    /\ UNCHANGED <<weatherCache, sessionStorage, storageFails, calls, gwd, ops>>

\* callers of the two fetchers, one call at a time
Next ==
    \/ \E fn \in {"getCurrentWeather", "getWeatherForecast"}, location \in LocationInputs,
          useRetry \in BOOLEAN : CallFetcher(fn, location, useRetry)
    \/ \E t \in Slots : \E response \in Responses(calls[t].fn) : Respond(t, response)
    \/ \E t \in Slots : TimerFire(t)
    \/ \E t \in Slots : Return(t)
    \/ \E d \in TickSteps : Tick(d)

Spec == Init /\ [][Next]_vars

\* callers of retryWithBackoff
NextRetry ==
    \/ \E maxAttempts \in 1..MaxAttemptsArg, delay \in DelayArgs :
          CallRetry(maxAttempts, delay)
    \/ \E t \in Slots : \E response \in Responses(calls[t].fn) : Respond(t, response)
    \/ \E t \in Slots : TimerFire(t)
    \/ \E t \in Slots : Return(t)
    \/ \E d \in TickSteps : Tick(d)

SpecRetry == Init /\ [][NextRetry]_vars

\* callers of getWeatherData
NextGwd ==
    \/ \E location \in LocationInputs : CallGetWeatherData(location)
    \/ \E t \in Slots : \E response \in Responses(calls[t].fn) : Respond(t, response)
    \/ \E t \in Slots : TimerFire(t)
    \/ \E response \in GeoResponses : GeoRespond(response)
    \/ \E t \in Slots : Return(t)
    \/ ReturnGwd

SpecGwd == InitGwd /\ [][NextGwd]_vars

\* a caller calls findNearbyCities: the call awaits the geocoding endpoint
CallFindNearbyCities(cityName) ==
    /\ AllIdle
    /\ ops < MaxGwdOps
    /\ calls' = [calls EXCEPT !["t1"] =
                   [IdleCall EXCEPT !.pc = "geo", !.fn = "findNearbyCities",
                                    !.owner = "user", !.location = cityName,
                                    !.fetches = 1, !.startedAt = now]]
    /\ ops' = ops + 1
    /\ UNCHANGED <<now, weatherCache, sessionStorage, storageFails, gwd, ticks>>

\* the geocoding endpoint answers the findNearbyCities call in slot t
GeoAnswer(t, response) ==
    /\ calls[t].pc = "geo"
    /\ calls' = [calls EXCEPT ![t] =
                   Settle([calls[t] EXCEPT !.response = response],
                          Fulfilled(findNearbyCitiesResult(response)))]
    /\ UNCHANGED <<now, weatherCache, sessionStorage, storageFails, gwd, ops, ticks>>

\* callers of findNearbyCities and of getWeatherData
NextGeo ==
    \/ \E cityName \in LocationInputs : CallFindNearbyCities(cityName)
    \/ \E t \in Slots : \E response \in GeoResponses : GeoAnswer(t, response)
    \/ \E location \in LocationInputs : CallGetWeatherData(location)
    \/ \E t \in Slots : \E response \in Responses(calls[t].fn) : Respond(t, response)
    \/ \E t \in Slots : TimerFire(t)
    \/ \E response \in GeoResponses : GeoRespond(response)
    \/ \E t \in Slots : Return(t)
    \/ ReturnGwd

SpecGeo == Init /\ [][NextGeo]_vars

\* what sessionStorage may hold when the module is loaded: each item
\* absent, well-formed or malformed
StartupStorages ==
    { [weatherCache_current |-> c, weatherCache_forecast |-> f] :
        c \in {Null, Stringify(StoredCurrent), MalformedText},
        f \in {Null, Stringify(StoredForecast), MalformedText} }

\* the place names asked for in a session
NameInputs == { Str(<<" ", "P">>), Str(<<"p">>), Str(<<"r">>) }

\* a page load over any persisted storage, in a session where
\* sessionStorage.setItem works or throws
InitStore ==
    /\ now = 0
    /\ sessionStorage \in StartupStorages
    /\ weatherCache = initializeCache(sessionStorage)
    /\ storageFails \in BOOLEAN
    /\ calls = [t \in Slots |-> IdleCall]
    /\ gwd = IdleGwd
    /\ ops = 0
    /\ ticks = 0

\* callers of the two fetchers by name, without retries
NextStore ==
    \/ \E fn \in {"getCurrentWeather", "getWeatherForecast"}, location \in NameInputs :
          CallFetcher(fn, location, FALSE)
    \/ \E t \in Slots : \E response \in Responses(calls[t].fn) : Respond(t, response)
    \/ \E t \in Slots : Return(t)
    \/ \E d \in TickSteps : Tick(d)

SpecStore == InitStore /\ [][NextStore]_vars

\* the samples one day of a forecast is made of
DaySamples ==
    { Sample(0, 100, Num(100), "01d", "clear sky", 20),
      Sample(10800, 150, Num(500), "01d", "few clouds", 40),
      Sample(21600, 120, Num(200), "02d", "few clouds", 30),
      Sample(32400, 154, Undefined, "02d", "clear sky", 45),
      Sample(43200, -25, Num(555), "03d", "rain", 1) }

\* the non-empty sequences over S of at most n elements
SeqsUpTo(S, n) == UNION { [1..k -> S] : k \in 1..n }

\* payloads of one day
OneDayPayloads ==
    { [type |-> "object", list |-> Array(list)] : list \in SeqsUpTo(DaySamples, MaxSamples) }

\* the first sample of day d, and one that comes later in the payload
DaySample(d) == Sample(d * 86400 + 3600, 100 + 10 * d, Num(0), "01d", "clear sky", 20)
LateSample(d) == Sample(d * 86400 + 7200, 300 + d, Num(250), "02d", "few clouds", 30)

\* payloads of several days in any order, each day once, with or without a
\* later sample of one of the days
ManyDayPayloads ==
    { [type |-> "object",
       list |-> Array([i \in 1..Len(order) |-> DaySample(order[i])] \o late)] :
        order \in { SubSeq(o, 1, k) : o \in Permutations(1..MaxDays), k \in 1..MaxDays },
        late \in {<<>>} \cup { <<LateSample(d)>> : d \in 1..MaxDays } }

\* bodies that parse but are no forecast
MalformedPayloads ==
    { Null,
      [type |-> "object", cod |-> "200"],
      [type |-> "object", list |-> Null],
      [type |-> "object", list |-> Str(<<"x">>)],
      [type |-> "object", list |-> [type |-> "object"]],
      [type |-> "object", list |-> Array(<<>>)] }

\* payloads with a probability above 1 or below 0
OutOfRangePayloads ==
    { [type |-> "object",
       list |-> Array(<< Sample(3600, 100, Num(1200), "01d", "clear sky", 20),
                         Sample(7200, 80, Num(300), "01d", "clear sky", 20) >>)],
      [type |-> "object",
       list |-> Array(<< Sample(3600, 100, Num(-100), "01d", "clear sky", 20) >>)] }

AggResponses ==
    { Http(TRUE, 200, <<"OK">>, body) :
        body \in OneDayPayloads \cup ManyDayPayloads \cup MalformedPayloads
                    \cup OutOfRangePayloads }

\* a forecast is fetched and aggregated
NextAgg ==
    \/ CallFetcher("getWeatherForecast", Str(<<"p">>), FALSE)
    \/ \E t \in Slots :
          /\ calls[t].pc = "fetch"
          /\ \E response \in AggResponses : Respond(t, response)

SpecAgg == Init /\ [][NextAgg]_vars

\* spellings of one place name, and the names of other places
NameSpellings ==
    { Str(<<" ", "P">>), Str(<<"p">>), Str(<<"P", " ">>), Str(<<"r">>),
      Str(<<"p", " ", "r">>) }

\* the slot a new call takes
FreeSlot == IF calls["t1"].pc = "idle" THEN "t1" ELSE "t2"

\* a caller calls a fetcher while the calls of other callers are in flight
\* or have settled
CallFetcherBeside(fn, location, useRetry) ==
    /\ gwd.pc = "idle"
    /\ calls[FreeSlot].pc = "idle"
    /\ ops < MaxOps
    /\ calls' = [calls EXCEPT ![FreeSlot] =
                   [Begin(fn, location, useRetry, "user") EXCEPT
                      !.id = ops + 1,
                      !.after = { calls[s].id : s \in {s \in Slots : calls[s].pc = "settled"} }]]
    /\ ops' = ops + 1
    /\ UNCHANGED <<now, weatherCache, sessionStorage, storageFails, gwd, ticks>>

\* time passes, whatever is in flight
Elapse(d) ==
    /\ ticks < MaxElapses
    /\ now' = now + d
    /\ ticks' = ticks + 1
    /\ UNCHANGED <<weatherCache, sessionStorage, storageFails, calls, gwd, ops>>

\* the answers of the network while calls overlap: no answer, no such
\* place, or a 2xx
ParResponses(fn) ==
    { response \in Responses(fn) :
        response.kind = "rejects" \/ response.ok \/ response.status = 404 }

\* callers of the two fetchers whose calls overlap, without retries, in a
\* page load over what an earlier one persisted
NextPar ==
    \/ \E fn \in {"getCurrentWeather", "getWeatherForecast"}, location \in NameSpellings :
          CallFetcherBeside(fn, location, FALSE)
    \/ \E t \in Slots :
          /\ calls[t].pc = "fetch"
          /\ \E response \in ParResponses(calls[t].fn) : Respond(t, response)
    \/ \E t \in Slots : Return(t)
    \/ \E d \in TickSteps : Elapse(d)

SpecPar == InitGwd /\ [][NextPar]_vars

\* the object with a property the caller has set on it
Tampered(value) ==
    [f \in DOMAIN value \cup {"tampered"} |-> IF f = "tampered" THEN TRUE ELSE value[f]]

\* the call returned the very object an entry holds: the body it has just
\* stored (lines 120-128, 209-218), or the data of the entry it found
\* (lines 85 and 143, 171 and 233)
ReturnedEntryData(call) ==
    /\ call.pc = "settled"
    /\ call.fn \in {"getCurrentWeather", "getWeatherForecast"}
    /\ call.result.state = "fulfilled"
    /\ call.fetches > call.failures \/ call.cachedData # Undefined

\* the caller sets a property on the value it was returned; the value is
\* the entry's own object and no copy, so the entry's data has the property
\* too, while the persisted text stays as it was written
CallerMutates(t) ==
    LET call == calls[t]
        key == call.normalizedLocation.str
    IN  /\ ReturnedEntryData(call)
        /\ "tampered" \notin DOMAIN call.result.value
        /\ calls' = [calls EXCEPT ![t].result.value = Tampered(@)]
        /\ weatherCache' =
             IF call.fn = "getCurrentWeather"
             THEN [weatherCache EXCEPT !.current[key].data = Tampered(@)]
             ELSE [weatherCache EXCEPT !.forecast[key].data = Tampered(@)]
        /\ UNCHANGED <<now, sessionStorage, storageFails, gwd, ops, ticks>>

\* callers of the two fetchers by name that change what they are returned
NextAlias ==
    \/ \E fn \in {"getCurrentWeather", "getWeatherForecast"}, location \in NameInputs :
          CallFetcher(fn, location, FALSE)
    \/ \E t \in Slots :
          /\ calls[t].pc = "fetch"
          /\ \E response \in Responses(calls[t].fn) : Respond(t, response)
    \/ \E t \in Slots : CallerMutates(t)
    \/ \E t \in Slots : Return(t)
    \/ \E d \in TickSteps : Tick(d)

SpecAlias == Init /\ [][NextAlias]_vars

\* the answers of a service that has no such place or refuses the key,
\* and the answers with data
PersistentResponses(fn) ==
    { response \in Responses(fn) :
        /\ response.kind = "http"
        /\ response.status \in {200, 401, 404}
        /\ response.json # Undefined }

\* two spellings of one place name
OneName == { Str(<<" ", "P">>), Str(<<"p">>) }

\* callers of the two fetchers for one place whose calls overlap, with and
\* without retries
NextParRetry ==
    \/ \E fn \in {"getCurrentWeather", "getWeatherForecast"}, location \in OneName,
          useRetry \in BOOLEAN : CallFetcherBeside(fn, location, useRetry)
    \/ \E t \in Slots :
          /\ calls[t].pc = "fetch"
          /\ \E response \in PersistentResponses(calls[t].fn) : Respond(t, response)
    \/ \E t \in Slots : TimerFire(t)
    \/ \E t \in Slots : Return(t)

SpecParRetry == Init /\ [][NextParRetry]_vars

\* answers to a forecast request whose body parses but may be no forecast,
\* beside one failure kind and one current-weather body
ListlessResponses(fn) ==
    IF fn = "getCurrentWeather"
    THEN { Http(TRUE, 200, <<"OK">>, [type |-> "object", name |-> "w1"]),
           Http(FALSE, 500, <<"Internal", "Server", "Error">>, Undefined) }
    ELSE { Http(TRUE, 200, <<"OK">>, body) : body \in MalformedPayloads \cup {StoredPayload} }
             \cup { Http(FALSE, 500, <<"Internal", "Server", "Error">>, Undefined) }

\* getWeatherData and then getWeatherForecast for one place, minutes apart
NextListless ==
    \/ CallGetWeatherData(Str(<<"p">>))
    \/ \E useRetry \in BOOLEAN : CallFetcher("getWeatherForecast", Str(<<"P", " ">>), useRetry)
    \/ \E t \in Slots :
          /\ calls[t].pc = "fetch"
          /\ \E response \in ListlessResponses(calls[t].fn) : Respond(t, response)
    \/ \E t \in Slots : TimerFire(t)
    \/ \E t \in Slots : Return(t)
    \/ ReturnGwd
    \/ \E d \in TickSteps : Tick(d)

SpecListless == Init /\ [][NextListless]_vars

\* getWeatherData where every request is answered in the end and every
\* backoff timer fires: fetch settles or rejects, setTimeout calls back
FairGwd ==
    /\ \A t \in Slots :
          /\ WF_vars(\E response \in Responses(calls[t].fn) : Respond(t, response))
          /\ WF_vars(TimerFire(t))
    /\ WF_vars(\E response \in GeoResponses : GeoRespond(response))

SpecGwdFair == InitGwd /\ [][NextGwd]_vars /\ FairGwd

\* the page is loaded again in the same tab: the module is evaluated anew
\* and line 28 fills the cache from what sessionStorage holds
Reload ==
    /\ AllIdle
    /\ ticks < MaxTicks
    /\ weatherCache' = initializeCache(sessionStorage)
    /\ ticks' = ticks + 1
    /\ UNCHANGED <<now, sessionStorage, storageFails, calls, gwd, ops>>

\* a page load over any persisted storage, in a session where
\* sessionStorage.setItem works
InitReload == InitStore /\ ~storageFails

\* fetches by name, without retries, and page reloads between them
NextReload ==
    \/ \E fn \in {"getCurrentWeather", "getWeatherForecast"}, location \in NameInputs :
          CallFetcher(fn, location, FALSE)
    \/ \E t \in Slots :
          /\ calls[t].pc = "fetch"
          /\ \E response \in ParResponses(calls[t].fn) : Respond(t, response)
    \/ \E t \in Slots : Return(t)
    \/ \E d \in TickSteps : Tick(d)
    \/ Reload

SpecReload == InitReload /\ [][NextReload]_vars

(* ---------------------------------------------------------------------- *)
(* Properties                                                             *)
(* ---------------------------------------------------------------------- *)
Fetchers == {"getCurrentWeather", "getWeatherForecast"}

\* the call has ended and every attempt it made threw
AllAttemptsFailed(c) == c.pc = "settled" /\ c.fetches >= 1 /\ c.failures = c.fetches

\* the value is an object with an error property
IsErrorShaped(v) == Get(v, "error") # Undefined

\* C1: a fetcher call that finds an entry for its normalized key, written at
\* T, when it starts at t: if t - T < 30 minutes it returns the entry's data
\* and issues no network call; if t - T >= 30 minutes, the bound included, it
\* issues a network call.
C1_CacheFreshness ==
    \A t \in Slots :
        LET c == calls[t]
        IN  (c.fn \in Fetchers /\ c.cachedData # Undefined) =>
                IF c.startedAt - c.cachedData.timestamp < 30 * 60 * 1000
                THEN /\ c.pc = "settled"
                     /\ c.result = Fulfilled(c.cachedData.data)
                     /\ c.fetches = 0
                ELSE c.fetches >= 1

\* an entry one millisecond short of 30 minutes old is served from the cache
C1_Witness ==
    \E t \in Slots :
        /\ calls[t].fn \in Fetchers
        /\ calls[t].pc = "settled"
        /\ calls[t].cachedData # Undefined
        /\ calls[t].startedAt - calls[t].cachedData.timestamp = 30 * 60 * 1000 - 1
        /\ calls[t].fetches = 0
        /\ calls[t].result = Fulfilled(calls[t].cachedData.data)

\* C2: a fetcher call that found an expired entry and whose attempts all
\* failed returns that entry's data, which is no error-shaped value.
C2_StaleFallback ==
    \A t \in Slots :
        LET c == calls[t]
        IN  (c.fn \in Fetchers /\ AllAttemptsFailed(c) /\ c.cachedData # Undefined) =>
                /\ c.result = Fulfilled(c.cachedData.data)
                /\ ~IsErrorShaped(c.result.value)

\* three failed attempts over an expired entry end in its data
C2_Witness ==
    \E t \in Slots :
        /\ calls[t].fn \in Fetchers
        /\ AllAttemptsFailed(calls[t])
        /\ calls[t].useRetry
        /\ calls[t].fetches = 3
        /\ calls[t].cachedData # Undefined
        /\ calls[t].startedAt - calls[t].cachedData.timestamp >= 30 * 60 * 1000
        /\ calls[t].result = Fulfilled(calls[t].cachedData.data)

\* C3: a fetcher call with a non-empty location, a name or a coordinate pair,
\* never rejects: it resolves to data, stale data or an error-shaped value.
C3_NeverThrows ==
    \A t \in Slots :
        LET c == calls[t]
        IN  (c.fn \in Fetchers /\ c.pc = "settled" /\ Truthy(c.location)) =>
                c.result.state = "fulfilled"

\* the error kinds of section 7 and the message each one has
ErrorKinds == {"NotFound", "Unauthorized", "RateLimited", "UpstreamError"}

KindOfStatus(status) ==
    CASE status = 404 -> "NotFound"
      [] status = 401 -> "Unauthorized"
      [] status = 429 -> "RateLimited"
      [] OTHER -> "UpstreamError"

\* the message the upstream sent: the body's message, else the status text
UpstreamText(response) ==
    IF response.json # Undefined /\ "message" \in DOMAIN response.json
    THEN response.json.message ELSE response.statusText

\* the text names the input: a name as it was passed, a coordinate pair by
\* its latitude and longitude
Names(text, location) ==
    IF location.type = "string" THEN text = location.str
    ELSE /\ Includes(text, NumberToString(location.lat))
         /\ Includes(text, NumberToString(location.lon))

HasKind(message, kind, location, response) ==
    CASE kind = "NotFound" ->
            /\ Len(message) >= 5
            /\ SubSeq(message, 1, 2) = <<"Location", "\"">>
            /\ SubSeq(message, Len(message) - 2, Len(message)) = <<"\"", "not", "found">>
            /\ Names(SubSeq(message, 3, Len(message) - 3), location)
      [] kind = "Unauthorized" -> message = <<"Invalid", "API", "key">>
      [] kind = "RateLimited" -> message = <<"API", "rate", "limit", "exceeded">>
      [] kind = "UpstreamError" ->
            message = <<"Weather", "API", "error:">> \o UpstreamText(response)

\* C4: when the last attempt of a fetcher call with no prior entry was
\* answered by a non-2xx response, the call returns {error: message} where
\* message is of the one kind the status gives (404 not found, naming the
\* location as it was passed; 401 invalid API key; 429 rate limit exceeded;
\* any other status the upstream's message) and of no other kind.
C4_ErrorKinds ==
    \A t \in Slots :
        LET c == calls[t]
        IN  (/\ c.fn \in Fetchers
             /\ AllAttemptsFailed(c)
             /\ c.cachedData = Undefined
             /\ c.response.kind = "http"
             /\ ~c.response.ok) =>
                /\ IsErrorShaped(c.result.value)
                /\ {k \in ErrorKinds :
                      HasKind(c.result.value.error.str, k, c.location, c.response)}
                     = {KindOfStatus(c.response.status)}

\* C5: a retryWithBackoff call whose operation failed on every attempt ran
\* it exactly maxAttempts times and rejects with the error of the final
\* attempt; one whose operation succeeded ran it no more after that and
\* resolves to that attempt's result.
C5_RetryAttempts ==
    \A t \in Slots :
        LET c == calls[t]
        IN  (c.fn = "operation" /\ c.pc = "settled") =>
                IF c.failures = c.fetches
                THEN c.fetches = c.maxAttempts /\ c.result = Rejected(c.thrown)
                ELSE /\ c.failures = c.fetches - 1
                     /\ c.response.kind = "resolves"
                     /\ c.result = Fulfilled(c.response.value)

\* three failures with the default maxAttempts
C5_Witness ==
    \E t \in Slots :
        /\ calls[t].fn = "operation"
        /\ calls[t].pc = "settled"
        /\ calls[t].maxAttempts = 3
        /\ calls[t].fetches = 3
        /\ calls[t].failures = 3
        /\ calls[t].result = Rejected(Error(<<"e2">>))

\* C6: retryWithBackoff asks for a wait of delay * 2^(k-1) after failed
\* attempt k when another attempt follows, and for no other wait: none
\* before the first attempt and none after the final failed attempt; the
\* next attempt does not start before the wait is over.
C6_BackoffTiming ==
    \A t \in Slots :
        LET c == calls[t]
        IN  c.fn = "operation" =>
                /\ Len(c.waits) = IF AllAttemptsFailed(c) THEN c.failures - 1 ELSE c.failures
                /\ \A k \in 1..Len(c.waits) : c.waits[k] = c.delay * 2 ^ (k - 1)
                /\ (c.pc = "fetch" /\ c.attempt > 1) => now >= c.wakeAt

\* attempts 1 and 2 fail, attempt 3 succeeds, base delay 1000
C6_Witness ==
    \E t \in Slots :
        /\ calls[t].fn = "operation"
        /\ calls[t].pc = "settled"
        /\ calls[t].delay = 1000
        /\ calls[t].fetches = 3
        /\ calls[t].failures = 2
        /\ calls[t].waits = <<1000, 2000>>
        /\ calls[t].result.state = "fulfilled"
        /\ now >= calls[t].startedAt + 3000

\* the fetcher in slot t returned an error-shaped value
ReturnedError(t) ==
    /\ calls[t].pc = "settled"
    /\ calls[t].result.state = "fulfilled"
    /\ IsErrorShaped(calls[t].result.value)

\* the last attempt of the fetcher in slot t was answered with this status
LastStatus(t, status) ==
    /\ calls[t].response # Undefined
    /\ calls[t].response.kind = "http"
    /\ calls[t].response.status = status

\* the resolver was answered with a non-empty list
CandidatesFound ==
    /\ gwd.geoResponse # Undefined
    /\ gwd.geoResponse.kind = "http"
    /\ gwd.geoResponse.ok
    /\ gwd.geoResponse.json # Undefined
    /\ gwd.geoResponse.json.type = "array"
    /\ Len(gwd.geoResponse.json.items) > 0

\* C7: getWeatherData calls findNearbyCities exactly when both fetchers
\* returned error-shaped values and the current-weather failure was a 404.
C7_ResolverOnlyOnNotFound ==
    gwd.pc \in {"geo", "settled"} =>
        (gwd.geoCalls >= 1
            <=> (ReturnedError("t1") /\ ReturnedError("t2") /\ LastStatus("t1", 404)))

\* C8: when both fetchers failed with a 404 and the geocoding endpoint
\* returned a non-empty list, getWeatherData returns current = null,
\* forecast = null, one {name, country, state, lat, lon} per candidate in
\* the order returned, and the did-you-mean message naming the location.
C8_NotFoundChain ==
    (/\ gwd.pc = "settled"
     /\ ReturnedError("t1") /\ LastStatus("t1", 404)
     /\ ReturnedError("t2") /\ LastStatus("t2", 404)
     /\ CandidatesFound) =>
        LET items == gwd.geoResponse.json.items
        IN  /\ gwd.result.current = Null
            /\ gwd.result.forecast = Null
            /\ gwd.result.alternatives.type = "array"
            /\ Len(gwd.result.alternatives.items) = Len(items)
            /\ \A i \in 1..Len(items) :
                 gwd.result.alternatives.items[i]
                   = [name |-> items[i].name, country |-> items[i].country,
                      state |-> Get(items[i], "state"),
                      lat |-> items[i].lat, lon |-> items[i].lon]
            /\ gwd.result.error
                 = Str(<<"Location", "\"">> \o TemplateString(gwd.location)
                         \o <<"\"", "not", "found", ".", "Did", "you", "mean",
                              "one", "of", "these?">>)

\* both 404 for " P" and two candidates back
C8_Witness ==
    /\ gwd.pc = "settled"
    /\ gwd.location = Str(<<" ", "P">>)
    /\ ReturnedError("t1") /\ LastStatus("t1", 404)
    /\ ReturnedError("t2") /\ LastStatus("t2", 404)
    /\ CandidatesFound
    /\ gwd.geoCalls = 1
    /\ Len(gwd.result.alternatives.items) = 2

\* C9: when both fetchers returned error-shaped values and the resolver was
\* not called or gave no candidates, getWeatherData returns current = null,
\* forecast = null and the current fetcher's message as error, with no
\* alternatives.
C9_CurrentErrorReported ==
    (/\ gwd.pc = "settled"
     /\ ReturnedError("t1") /\ ReturnedError("t2")
     /\ (gwd.geoCalls = 0 \/ ~CandidatesFound)) =>
        gwd.result = GwdResult(Null, Null, Undefined, calls["t1"].result.value.error)

\* the two fetchers failed with different messages
C9_Witness ==
    /\ gwd.pc = "settled"
    /\ ReturnedError("t1") /\ ReturnedError("t2")
    /\ gwd.geoCalls = 0
    /\ calls["t1"].result.value.error # calls["t2"].result.value.error
    /\ gwd.result.error = calls["t1"].result.value.error
    /\ gwd.result.error # calls["t2"].result.value.error

\* C10: when at most one of the two fetchers returned an error-shaped value,
\* getWeatherData returns {current, forecast, error: null} with the two
\* fetcher results as they are, and does not call the resolver.
C10_PartialSuccess ==
    (gwd.pc = "settled" /\ ~(ReturnedError("t1") /\ ReturnedError("t2"))) =>
        /\ gwd.result.error = Null
        /\ gwd.geoCalls = 0
        /\ \A t \in Slots : calls[t].pc = "settled" /\ calls[t].result.state = "fulfilled"
        /\ gwd.result.current = calls["t1"].result.value
        /\ gwd.result.forecast = calls["t2"].result.value

\* C11: getWeatherData starts both fetchers before it awaits either, and it
\* returns only when both fetchers have settled, whatever the location.
C11_JoinsBoth ==
    /\ gwd.pc \in {"join", "geo", "settled"} =>
          \A t \in Slots : calls[t].pc # "idle"
    /\ gwd.pc = "settled" =>
          \A t \in Slots : calls[t].pc = "settled"

\* the mapping a persisted item parses to; an absent item is the empty mapping
Persisted(item) == IF item = Null THEN << >> ELSE item.value

\* C12: from persisted storage that is well-formed or absent, and while
\* sessionStorage.setItem succeeds, wherever a task is suspended the
\* persisted mapping of each namespace equals the in-memory mapping.
C12_PersistenceMirror ==
    ~storageFails =>
        /\ Persisted(sessionStorage.weatherCache_current) = weatherCache.current
        /\ Persisted(sessionStorage.weatherCache_forecast) = weatherCache.forecast

\* the current-weather fetch has written its entry, mirrored, while the
\* forecast fetch of the same getWeatherData call is still suspended
C12_Witness ==
    /\ ~storageFails
    /\ gwd.pc = "join"
    /\ calls["t1"].pc = "settled"
    /\ calls["t1"].fetches > calls["t1"].failures
    /\ calls["t2"].pc \in {"fetch", "backoff"}
    /\ now > 0
    /\ calls["t1"].normalizedLocation.str \in DOMAIN weatherCache.current
    /\ weatherCache.current[calls["t1"].normalizedLocation.str].timestamp = now
    /\ sessionStorage.weatherCache_current # Null
    /\ sessionStorage.weatherCache_current.value = weatherCache.current

\* the in-memory mapping the fetcher fn reads and writes
Namespace(fn) ==
    IF fn = "getCurrentWeather" THEN weatherCache.current ELSE weatherCache.forecast

\* C13: in a session where sessionStorage.setItem throws, a fetch the
\* network answered with data still returns that data and leaves the
\* in-memory entry with the new timestamp; and a call that finds an
\* in-memory entry younger than 30 minutes is served from it without a
\* network call.
C13_StorageFailureNotFatal ==
    storageFails =>
        \A t \in Slots :
            LET c == calls[t]
                key == c.normalizedLocation.str
                ns == Namespace(c.fn)
            IN  (c.fn \in Fetchers /\ c.pc = "settled") =>
                    /\ c.fetches > c.failures =>
                          /\ key \in DOMAIN ns
                          /\ ns[key].timestamp = now
                          /\ c.result = Fulfilled(ns[key].data)
                          /\ ~IsErrorShaped(c.result.value)
                          /\ IF c.fn = "getCurrentWeather"
                             THEN ns[key].data = c.response.json
                             ELSE ns[key].rawData = c.response.json
                    /\ (/\ c.fetches = c.failures
                        /\ key \in DOMAIN ns
                        /\ c.startedAt - ns[key].timestamp < 30 * 60 * 1000) =>
                          /\ c.fetches = 0
                          /\ c.result = Fulfilled(ns[key].data)

\* nothing was ever persisted, and a call one millisecond short of 30
\* minutes after the fetch is served from memory
C13_Witness ==
    /\ storageFails
    /\ sessionStorage.weatherCache_current = Null
    /\ calls["t1"].fn = "getCurrentWeather"
    /\ calls["t1"].pc = "settled"
    /\ calls["t1"].fetches = 0
    /\ calls["t1"].cachedData # Undefined
    /\ calls["t1"].startedAt - calls["t1"].cachedData.timestamp = 30 * 60 * 1000 - 1
    /\ calls["t1"].result = Fulfilled(calls["t1"].cachedData.data)

\* the mapping a startup that loads the item on its own gives its namespace
Loaded(item) == IF item = Null \/ ~item.wellFormed THEN << >> ELSE item.value

\* C14: at startup each namespace is loaded on its own: a malformed or
\* absent item gives an empty mapping, and a well-formed item is loaded in
\* full whatever the other item is.
C14_IndependentLoad ==
    ops = 0 =>
        /\ weatherCache.current = Loaded(sessionStorage.weatherCache_current)
        /\ weatherCache.forecast = Loaded(sessionStorage.weatherCache_forecast)

\* a forecast call the network answered with a body
Aggregated(c) ==
    c.fn = "getWeatherForecast" /\ c.pc = "settled" /\ c.fetches > c.failures

\* the payload has a sample list that is a sequence
HasSampleList(raw) ==
    raw # Null /\ "list" \in DOMAIN raw /\ raw.list.type = "array"

\* the UTC calendar day of a sample, and the samples of one day in payload order
DayOf(sample) == sample.dt \div 86400

SamplesOfDay(items, date) == SelectSeq(items, LAMBDA sample : DayOf(sample) = date)

Greatest(S) == CHOOSE x \in S : \A y \in S : y <= x

Least(S) == CHOOSE x \in S : \A y \in S : x <= y

RECURSIVE TotalWind(_)
TotalWind(samples) ==
    IF samples = <<>> THEN 0 ELSE Head(samples).wind + TotalWind(Tail(samples))

\* r is n/d rounded to the nearest integer, a half going up
IsRounded(r, n, d) == 2 * d * r - d <= 2 * n /\ 2 * n < 2 * d * r + d

\* r is the least integer not below n/d
IsCeiling(r, n, d) == d * (r - 1) < n /\ n <= d * r

\* low, precipitation and wind of a summary are what the day's samples give
LowPrecipitationWind(summary, samples) ==
    LET temps == {samples[i].temp : i \in 1..Len(samples)}
        pops == {IF samples[i].pop = Undefined THEN 0 ELSE samples[i].pop.num :
                   i \in 1..Len(samples)}
    IN  /\ IsRounded(summary.low, Least(temps), 10)
        /\ IsRounded(summary.precipitation, Greatest(pops), 10)
        /\ IsRounded(summary.wind, 36 * TotalWind(samples), 100 * Len(samples))

HighestTemp(samples) == Greatest({samples[i].temp : i \in 1..Len(samples)})

\* the day of the example: temps 10, 15, 12, pop 0.1, 0.5, 0.2, wind 2, 4, 3
ExampleDay ==
    << Sample(0, 100, Num(100), "01d", "clear sky", 20),
       Sample(10800, 150, Num(500), "01d", "few clouds", 40),
       Sample(21600, 120, Num(200), "02d", "few clouds", 30) >>

ExampleHolds(c) ==
    c.response.json.list.items = ExampleDay =>
        /\ Len(c.result.value.items) = 1
        /\ c.result.value.items[1].high = 15
        /\ c.result.value.items[1].low = 10
        /\ c.result.value.items[1].precipitation = 50
        /\ c.result.value.items[1].wind = 11

\* C15 as stated: for every day of the output, high is the ceiling of the
\* day's maximum temperature, low the rounded minimum, precipitation the
\* rounded maximum probability times 100 (a missing one counting as 0) and
\* wind the rounded mean speed times 3.6; the example day gives 15, 10, 50, 11.
C15_NumericFieldsCeiling ==
    \A t \in Slots :
        LET c == calls[t]
        IN  (Aggregated(c) /\ HasSampleList(c.response.json)) =>
                /\ \A k \in 1..Len(c.result.value.items) :
                     LET summary == c.result.value.items[k]
                         samples == SamplesOfDay(c.response.json.list.items, summary.date)
                     IN  /\ IsCeiling(summary.high, HighestTemp(samples), 10)
                         /\ LowPrecipitationWind(summary, samples)
                /\ ExampleHolds(c)

\* C15 amended: for every day of the output, high is the day's maximum
\* temperature rounded to the nearest integer, low the rounded minimum,
\* precipitation the rounded maximum probability times 100 (a missing one
\* counting as 0) and wind the rounded mean speed times 3.6; the example
\* day gives 15, 10, 50, 11.
C15_NumericFields ==
    \A t \in Slots :
        LET c == calls[t]
        IN  (Aggregated(c) /\ HasSampleList(c.response.json)) =>
                /\ \A k \in 1..Len(c.result.value.items) :
                     LET summary == c.result.value.items[k]
                         samples == SamplesOfDay(c.response.json.list.items, summary.date)
                     IN  /\ IsRounded(summary.high, HighestTemp(samples), 10)
                         /\ LowPrecipitationWind(summary, samples)
                /\ ExampleHolds(c)

\* a day whose maximum is 15.4 has high 15; its minimum -2.5 gives low -2,
\* and its greatest probability 0.555 gives precipitation 56
C15_Witness ==
    \E t \in Slots :
        /\ Aggregated(calls[t])
        /\ HasSampleList(calls[t].response.json)
        /\ Len(calls[t].response.json.list.items) = 3
        /\ HighestTemp(calls[t].response.json.list.items) = 154
        /\ \E i \in 1..3 : calls[t].response.json.list.items[i].temp = -25
        /\ \E i \in 1..3 : calls[t].response.json.list.items[i].pop = Undefined
        /\ Len(calls[t].result.value.items) = 1
        /\ calls[t].result.value.items[1].high = 15
        /\ calls[t].result.value.items[1].low = -2
        /\ calls[t].result.value.items[1].precipitation = 56

\* v is the most frequent of values, the first met among those that tie
MostFrequentFirstMet(v, values) ==
    LET count(w) == Cardinality({i \in 1..Len(values) : values[i] = w})
        first(w) == Least({i \in 1..Len(values) : values[i] = w})
    IN  /\ \E i \in 1..Len(values) : values[i] = v
        /\ \A i \in 1..Len(values) :
             /\ count(values[i]) <= count(v)
             /\ (count(values[i]) = count(v) /\ values[i] # v) => first(v) < first(values[i])

\* C16: for every day of the output, icon is the most frequent icon of the
\* day's samples and description the most frequent description, each on
\* its own, and among values that tie the one met first in the day's
\* sample order is chosen.
C16_MostFrequent ==
    \A t \in Slots :
        LET c == calls[t]
        IN  (Aggregated(c) /\ HasSampleList(c.response.json)) =>
                \A k \in 1..Len(c.result.value.items) :
                    LET summary == c.result.value.items[k]
                        samples == SamplesOfDay(c.response.json.list.items, summary.date)
                    IN  /\ MostFrequentFirstMet(summary.icon,
                              [i \in 1..Len(samples) |-> samples[i].icon])
                        /\ MostFrequentFirstMet(summary.description,
                              [i \in 1..Len(samples) |-> samples[i].description])

\* icons 02d, 01d, 01d, 02d tie two to two and the first met, 02d, is
\* chosen; the descriptions tie too, over other pairs of samples, and the
\* first met, few clouds, is chosen
C16_Witness ==
    \E t \in Slots :
        /\ Aggregated(calls[t])
        /\ HasSampleList(calls[t].response.json)
        /\ Len(calls[t].response.json.list.items) = 4
        /\ [i \in 1..4 |-> calls[t].response.json.list.items[i].icon]
             = <<"02d", "01d", "01d", "02d">>
        /\ [i \in 1..4 |-> calls[t].response.json.list.items[i].description]
             = <<"few clouds", "clear sky", "few clouds", "clear sky">>
        /\ Len(calls[t].result.value.items) = 1
        /\ calls[t].result.value.items[1].icon = "02d"
        /\ calls[t].result.value.items[1].description = "few clouds"

\* the distinct days of a sample sequence, and where each is first met
DaysOf(items) == {DayOf(items[i]) : i \in 1..Len(items)}

FirstMet(items, date) == Least({i \in 1..Len(items) : DayOf(items[i]) = date})

\* C17: for a sample sequence with n distinct UTC days the output has
\* min(5, n) summaries of different dates, which are the first min(5, n)
\* distinct days in the order they are first met in the sequence, not in
\* chronological order; the samples of a day met again later count in the
\* summary of that day.
C17_OrderAndCap ==
    \A t \in Slots :
        LET c == calls[t]
        IN  (Aggregated(c) /\ HasSampleList(c.response.json)) =>
                LET items == c.response.json.list.items
                    out == c.result.value.items
                    n == Cardinality(DaysOf(items))
                IN  /\ Len(out) = IF n < 5 THEN n ELSE 5
                    /\ \A k \in 1..Len(out) :
                         /\ out[k].date \in DaysOf(items)
                         /\ Cardinality({d \in DaysOf(items) :
                                FirstMet(items, d) < FirstMet(items, out[k].date)}) = k - 1
                         /\ IsRounded(out[k].high,
                                      HighestTemp(SamplesOfDay(items, out[k].date)), 10)

\* six days met in an order that is not chronological, the first of them
\* met again at the end: five summaries, the first for the day met first,
\* with the late sample in its high
C17_Witness ==
    \E t \in Slots :
        /\ Aggregated(calls[t])
        /\ HasSampleList(calls[t].response.json)
        /\ LET items == calls[t].response.json.list.items
               out == calls[t].result.value.items
           IN  /\ Len(items) = 7
               /\ Cardinality(DaysOf(items)) = 6
               /\ DayOf(items[1]) = 4
               /\ DayOf(items[2]) = 2
               /\ DayOf(items[6]) = 1
               /\ DayOf(items[7]) = 4
               /\ Len(out) = 5
               /\ out[1].date = 4
               /\ out[2].date = 2
               /\ out[1].high = 30
               /\ \A k \in 1..5 : out[k].date # 1

\* C18: when the payload is missing, has no sample list, or has a sample
\* list that is no sequence, the aggregator returns an empty sequence and
\* raises nothing: the forecast call resolves to the empty sequence.
C18_FailsSoft ==
    \A t \in Slots :
        LET c == calls[t]
        IN  (Aggregated(c) /\ ~HasSampleList(c.response.json)) =>
                /\ c.result = Fulfilled([type |-> "array", items |-> <<>>])
                /\ c.normalizedLocation.str \in DOMAIN weatherCache.forecast
                /\ weatherCache.forecast[c.normalizedLocation.str].data
                     = [type |-> "array", items |-> <<>>]

\* a payload whose list is a string
C18_Witness ==
    \E t \in Slots :
        /\ Aggregated(calls[t])
        /\ calls[t].response.json # Null
        /\ "list" \in DOMAIN calls[t].response.json
        /\ calls[t].response.json.list.type = "string"
        /\ calls[t].result = Fulfilled([type |-> "array", items |-> <<>>])

\* the response carries a non-empty list of candidates
CandidatesIn(response) ==
    /\ response.kind = "http"
    /\ response.ok
    /\ response.json # Undefined
    /\ response.json.type = "array"
    /\ Len(response.json.items) > 0

\* C19: findNearbyCities never throws: it resolves to null on a network
\* failure, a non-2xx response or an empty result, and to one {name,
\* country, state, lat, lon} record per candidate, in upstream order,
\* otherwise; and when the resolver gives nothing, getWeatherData does not
\* report a resolver error but the current fetcher's message.
C19_ResolverFailsSoft ==
    /\ \A t \in Slots :
         LET c == calls[t]
         IN  (c.fn = "findNearbyCities" /\ c.pc = "settled") =>
                 /\ c.result.state = "fulfilled"
                 /\ IF CandidatesIn(c.response)
                    THEN /\ c.result.value.type = "array"
                         /\ Len(c.result.value.items) = Len(c.response.json.items)
                         /\ \A i \in 1..Len(c.response.json.items) :
                              LET city == c.response.json.items[i]
                              IN  c.result.value.items[i]
                                    = [name |-> city.name, country |-> city.country,
                                       state |-> Get(city, "state"),
                                       lat |-> city.lat, lon |-> city.lon]
                    ELSE c.result.value = Null
    /\ (gwd.pc = "settled" /\ gwd.geoCalls >= 1 /\ ~CandidatesIn(gwd.geoResponse)) =>
         /\ ReturnedError("t1")
         /\ gwd.result.current = Null
         /\ gwd.result.forecast = Null
         /\ gwd.result.alternatives = Undefined
         /\ gwd.result.error = calls["t1"].result.value.error

\* a direct call whose geocoding request got an empty list resolves to null
C19_Witness ==
    \E t \in Slots :
        /\ calls[t].fn = "findNearbyCities"
        /\ calls[t].pc = "settled"
        /\ calls[t].response.kind = "http"
        /\ calls[t].response.ok
        /\ calls[t].response.json = [type |-> "array", items |-> <<>>]
        /\ calls[t].result = Fulfilled(Null)

\* C20: current weather fetched by the coordinate pair of a place is not
\* served from the entry of the place's name: the call goes to the network
\* or is served from an entry of its own key, and when the network answers
\* with data the call resolves to it and the current namespace holds an
\* entry for the pair beside the one for the name.
C20_NoCrossHit ==
    \A t \in Slots :
        LET c == calls[t]
        IN  (/\ c.fn = "getCurrentWeather"
             /\ c.pc = "settled"
             /\ c.location.type = "object") =>
                /\ c.result.state = "fulfilled"
                /\ c.normalizedLocation # Undefined
                /\ c.fetches >= 1 \/ c.cachedData # Undefined
                /\ c.fetches > c.failures =>
                     /\ c.result.value = c.response.json
                     /\ c.normalizedLocation.str \in DOMAIN weatherCache.current
                     /\ c.normalizedLocation.str # <<"p">>

\* two letters that differ at most in case
SameLetter(x, y) == x = y \/ {x, y} \in {{"P", "p"}, {"R", "r"}}

\* a[i..j] is the name a without its leading and trailing whitespace
IsCore(a, i, j) ==
    /\ i <= j + 1
    /\ j <= Len(a)
    /\ \A n \in 1..Len(a) : (n < i \/ n > j) => a[n] = " "
    /\ i <= j => (a[i] # " " /\ a[j] # " ")

\* the names a and b differ only in letter case and in leading or trailing
\* whitespace
SameName(a, b) ==
    \E i \in 1..(Len(a) + 1), j \in 0..Len(a) :
        /\ IsCore(a, i, j)
        /\ \E k \in 1..(Len(b) + 1) :
              /\ IsCore(b, k, k + j - i)
              /\ \A n \in 0..(j - i) : SameLetter(a[i + n], b[k + n])

\* the key has no upper-case letter and no outer whitespace
Canonical(key) ==
    /\ \A n \in 1..Len(key) : key[n] \notin {"P", "R"}
    /\ Len(key) > 0 => (key[1] # " " /\ key[Len(key)] # " ")

\* a call of a fetcher by a place name that got as far as its cache key
ByName(c) ==
    c.fn \in Fetchers /\ c.location.type = "string" /\ c.normalizedLocation # Undefined

\* the call had settled, its fetch answered with data, when the call c began
WroteBefore(e, c) ==
    e.pc = "settled" /\ e.fetches > e.failures /\ e.id \in c.after

\* C21: the cache key of a name is its lower-cased, trimmed spelling, and
\* normalizing the key again gives the key; two names get the same key
\* exactly when they differ only in letter case and outer whitespace; and
\* a call by name that begins after a call of the same fetcher by a
\* spelling of the same name fetched data finds an entry, and is served
\* from it without a network call when the entry is younger than 30 minutes.
C21_NameNormalization ==
    \A t \in Slots :
        LET c == calls[t]
        IN  ByName(c) =>
              /\ SameName(c.normalizedLocation.str, c.location.str)
              /\ Canonical(c.normalizedLocation.str)
              /\ NormalizeLocation(c.fn, c.normalizedLocation) = c.normalizedLocation
              /\ \A u \in Slots \ {t} :
                    LET e == calls[u]
                    IN  ByName(e) =>
                          /\ SameName(e.location.str, c.location.str)
                                <=> e.normalizedLocation = c.normalizedLocation
                          /\ (/\ e.fn = c.fn
                              /\ WroteBefore(e, c)
                              /\ SameName(e.location.str, c.location.str)) =>
                                /\ c.cachedData # Undefined
                                /\ c.cachedData.timestamp >= e.startedAt
                                /\ c.startedAt - c.cachedData.timestamp < 30 * 60 * 1000 =>
                                      /\ c.pc = "settled"
                                      /\ c.fetches = 0
                                      /\ c.result = Fulfilled(c.cachedData.data)

\* " P" was fetched, and one millisecond short of 30 minutes later "P " is
\* served that data without a network call
C21_Witness ==
    \E t \in Slots, u \in Slots :
        LET c == calls[t]
            e == calls[u]
        IN  /\ ByName(e) /\ ByName(c)
            /\ e.fn = c.fn
            /\ e.location = Str(<<" ", "P">>)
            /\ c.location = Str(<<"P", " ">>)
            /\ e.fetches = 1
            /\ WroteBefore(e, c)
            /\ c.pc = "settled"
            /\ c.fetches = 0
            /\ c.startedAt - c.cachedData.timestamp = 30 * 60 * 1000 - 1
            /\ c.result = e.result

\* the location is the empty string or is missing
Absent(location) == location \in {Undefined, Null, Str(<<>>)}

\* C22: a call of either fetcher with an empty or missing location has
\* settled with null as soon as it is made, has issued no network call, and
\* the step that makes it leaves both in-memory namespaces and both
\* persisted items as they were.
C22_FailsFast ==
    [][ \A t \in Slots :
          LET c == calls'[t]
          IN  (c.fn \in Fetchers /\ Absent(c.location)) =>
                /\ c.pc = "settled"
                /\ c.result = Fulfilled(Null)
                /\ c.fetches = 0
                /\ c.apiUrl = Undefined
                /\ weatherCache' = weatherCache
                /\ sessionStorage' = sessionStorage ]_vars

\* after a fetch that left an entry, a call with the empty string ends in
\* null without a network call, the entry still there
C22_Witness ==
    \E t \in Slots :
        /\ calls[t].fn \in Fetchers
        /\ calls[t].location = Str(<<>>)
        /\ calls[t].pc = "settled"
        /\ calls[t].result = Fulfilled(Null)
        /\ calls[t].fetches = 0
        /\ ops = 2
        /\ weatherCache.current # EmptyMap
        /\ sessionStorage.weatherCache_current = Stringify(weatherCache.current)

\* the text `${lat},${lon}` of a coordinate pair
PairKey(location) ==
    NumberToString(location.lat) \o <<",">> \o NumberToString(location.lon)

\* C23: a forecast call with a coordinate pair, a zero in it or not, uses
\* the key "lat,lon", and each request it issues is the query by
\* coordinates with that lat and lon, never the query by name.
C23_CoordinateQuery ==
    \A t \in Slots :
        LET c == calls[t]
        IN  (c.fn = "getWeatherForecast" /\ c.location.type = "object") =>
              /\ c.normalizedLocation = Str(PairKey(c.location))
              /\ c.fetches >= 1 =>
                    /\ c.apiUrl.endpoint = "forecast"
                    /\ c.apiUrl.by = "coordinates"
                    /\ c.apiUrl.lat = NumberToString(c.location.lat)
                    /\ c.apiUrl.lon = NumberToString(c.location.lon)

\* C24: no call finds in the cache a value that carries a change made by a
\* caller to a value it was returned: what a cache hit or a stale fallback
\* returns is what the fetch stored.
C24_NoSharedMutation ==
    \A t \in Slots :
        LET c == calls[t]
        IN  (c.fn \in Fetchers /\ c.cachedData # Undefined) =>
                "tampered" \notin DOMAIN c.cachedData.data

\* C25: whenever the entry of a key is written or changes, a fetch for that
\* key has just been answered with a body, and the entry is exactly the
\* time of the write with that body (for a forecast: with the aggregate of
\* the body as data and the body itself as rawData), whatever entry the key
\* had before.
C25_WholesaleReplace ==
    [][ \A fn \in Fetchers :
          LET old == IF fn = "getCurrentWeather"
                     THEN weatherCache.current ELSE weatherCache.forecast
              new == IF fn = "getCurrentWeather"
                     THEN weatherCache'.current ELSE weatherCache'.forecast
          IN  \A key \in DOMAIN new :
                (key \notin DOMAIN old \/ new[key] # old[key]) =>
                   \E t \in Slots :
                      LET c == calls'[t]
                      IN  /\ calls[t].pc = "fetch"
                          /\ c.pc = "settled"
                          /\ c.fn = fn
                          /\ c.normalizedLocation.str = key
                          /\ c.response.kind = "http"
                          /\ c.response.ok
                          /\ c.result = Fulfilled(new[key].data)
                          /\ new[key].timestamp = now'
                          /\ IF fn = "getCurrentWeather"
                             THEN /\ DOMAIN new[key] = {"timestamp", "data"}
                                  /\ new[key].data = c.response.json
                             ELSE /\ DOMAIN new[key] = {"timestamp", "data", "rawData"}
                                  /\ new[key].rawData = c.response.json
                                  /\ new[key].data = processForecastData(new[key].rawData) ]_vars

\* a forecast call found an expired entry and its fetch was answered: the
\* key holds the new time, the new payload and the summary of the new payload
C25_Witness ==
    \E t \in Slots :
        LET c == calls[t]
            key == c.normalizedLocation.str
        IN  /\ c.fn = "getWeatherForecast"
            /\ c.pc = "settled"
            /\ c.fetches > c.failures
            /\ c.cachedData # Undefined
            /\ key \in DOMAIN weatherCache.forecast
            /\ weatherCache.forecast[key].timestamp = now
            /\ weatherCache.forecast[key].timestamp > c.cachedData.timestamp
            /\ weatherCache.forecast[key].rawData = c.response.json
            /\ weatherCache.forecast[key].rawData # c.cachedData.rawData
            /\ weatherCache.forecast[key].data # c.cachedData.data
            /\ Len(weatherCache.forecast[key].data.items) = 2
            /\ weatherCache.forecast[key].data = c.result.value

\* C26: no step removes a key from a namespace: the keys of the current
\* and of the forecast mapping after a step include those before it.
C26_KeysOnlyGrow ==
    [][ /\ DOMAIN weatherCache.current \subseteq DOMAIN weatherCache'.current
        /\ DOMAIN weatherCache.forecast \subseteq DOMAIN weatherCache'.forecast ]_vars

\* an entry 30 minutes old or more is still there, beside a second key,
\* after a fetch for its key failed and fell back on it
C26_Witness ==
    \E t \in Slots :
        LET c == calls[t]
            key == c.normalizedLocation.str
        IN  /\ c.fn = "getCurrentWeather"
            /\ AllAttemptsFailed(c)
            /\ c.cachedData # Undefined
            /\ now - c.cachedData.timestamp >= 30 * 60 * 1000
            /\ key \in DOMAIN weatherCache.current
            /\ weatherCache.current[key] = c.cachedData
            /\ Cardinality(DOMAIN weatherCache.current) = 2

\* the call computed its key and found no entry younger than 30 minutes
Missed(c) ==
    /\ c.normalizedLocation # Undefined
    /\ ~(c.cachedData # Undefined
         /\ c.startedAt - c.cachedData.timestamp < 30 * 60 * 1000)

\* C27: a fetcher call has no result while attempts remain; when every
\* attempt has failed it ends, once, in the data of the entry it found or
\* else in the error of its last attempt.  On a cache miss without retry it
\* issues exactly one network call and waits for no backoff; with retry it
\* issues at least one and at most 3 network calls, and it gives up only
\* after the third has failed.
C27_RetryScope ==
    \A t \in Slots :
        LET c == calls[t]
        IN  (c.fn \in Fetchers /\ c.pc # "idle") =>
              /\ c.pc \in {"fetch", "backoff"} => c.result = Undefined
              /\ ~Missed(c) => c.fetches = 0
              /\ (Missed(c) /\ ~c.useRetry) =>
                    /\ c.fetches = 1
                    /\ c.waits = <<>>
                    /\ c.pc # "backoff"
              /\ (Missed(c) /\ c.useRetry) =>
                    /\ c.fetches \in 1..3
                    /\ Len(c.waits) <= 2
              /\ AllAttemptsFailed(c) =>
                    /\ c.useRetry => c.fetches = 3
                    /\ c.result =
                         IF c.cachedData # Undefined
                         THEN Fulfilled(c.cachedData.data)
                         ELSE Fulfilled(ErrorShaped(c.thrown.message))

\* with retry and no entry to fall back on, three network calls and two
\* backoff waits end in the error of the third attempt
C27_Witness ==
    \E t \in Slots :
        LET c == calls[t]
        IN  /\ c.fn \in Fetchers
            /\ c.useRetry
            /\ c.pc = "settled"
            /\ c.fetches = 3
            /\ c.failures = 3
            /\ c.waits = <<1000, 2000>>
            /\ c.cachedData = Undefined
            /\ c.response.kind = "http"
            /\ c.response.status = 429
            /\ c.result = Fulfilled(ErrorShaped(RateLimitMessage))

\* the persisted mapping of the namespace of the fetcher fn
PersistedNamespace(fn) ==
    IF fn = "getCurrentWeather"
    THEN Persisted(sessionStorage.weatherCache_current)
    ELSE Persisted(sessionStorage.weatherCache_forecast)

\* C28: however the fetches of overlapping calls interleave, wherever they
\* are suspended the persisted mapping of each namespace is the in-memory
\* one (no fetch is ever between its in-memory write and its persisted
\* write), and the key of every call whose fetch was answered with data has
\* an entry in both.
C28_NoLostUpdate ==
    /\ \A fn \in Fetchers : PersistedNamespace(fn) = Namespace(fn)
    /\ \A t \in Slots :
          LET c == calls[t]
          IN  (c.fn \in Fetchers /\ c.pc = "settled" /\ c.fetches > c.failures) =>
                /\ c.normalizedLocation.str \in DOMAIN Namespace(c.fn)
                /\ c.normalizedLocation.str \in DOMAIN PersistedNamespace(c.fn)

\* two calls of one fetcher for different keys were in flight together and
\* the one begun later was answered first; both keys have their entries, in
\* memory and persisted
C28_Witness ==
    LET first == calls["t1"]
        second == calls["t2"]
        ns == Namespace(first.fn)
    IN  /\ first.fn \in Fetchers
        /\ second.fn = first.fn
        /\ first.id = 1 /\ second.id = 2
        /\ first.after = {} /\ second.after = {}
        /\ first.pc = "settled" /\ second.pc = "settled"
        /\ first.fetches > first.failures
        /\ second.fetches > second.failures
        /\ first.normalizedLocation # second.normalizedLocation
        /\ ns[second.normalizedLocation.str].timestamp < ns[first.normalizedLocation.str].timestamp
        /\ first.startedAt <= ns[second.normalizedLocation.str].timestamp
        /\ {first.normalizedLocation.str, second.normalizedLocation.str}
              \subseteq DOMAIN PersistedNamespace(first.fn)

\* the answer is one a fetch fails on: no answer, an error status, or a
\* body that does not parse
FailingAnswer(response) ==
    \/ response.kind = "rejects"
    \/ response.kind = "http" /\ (~response.ok \/ response.json = Undefined)

\* C29: the step in which a fetch gets a failing answer leaves both
\* in-memory mappings and both persisted items as they were, the timestamp
\* of the entry the call found included; and a call that begins when a call
\* for the same key has failed, the key's entry being the one the failed
\* call found (or none), issues a network call.
C29_FailureLeavesCache ==
    [][ \A t \in Slots :
          LET b == calls[t]
              c == calls'[t]
          IN  /\ (/\ b.pc = "fetch"
                  /\ b.fn \in Fetchers
                  /\ c.response # b.response \/ c.failures # b.failures
                  /\ FailingAnswer(c.response)) =>
                    /\ c.failures = b.failures + 1
                    /\ weatherCache' = weatherCache
                    /\ sessionStorage' = sessionStorage
              /\ (b.pc = "idle" /\ c.pc # "idle" /\ ByName(c)) =>
                    \A u \in Slots \ {t} :
                       LET e == calls[u]
                       IN  (/\ AllAttemptsFailed(e)
                            /\ e.fn = c.fn
                            /\ e.normalizedLocation = c.normalizedLocation
                            /\ Lookup(Namespace(c.fn), c.normalizedLocation.str)
                                 = e.cachedData) =>
                              /\ c.cachedData = e.cachedData
                              /\ c.fetches = 1
                              /\ c.pc = "fetch" ]_vars

\* a fetch failed and fell back on an expired entry; the entry is as it
\* was, and the call made next for the key is at the network
C29_Witness ==
    \E t \in Slots, u \in Slots :
        LET c == calls[t]
            e == calls[u]
            key == e.normalizedLocation.str
        IN  /\ AllAttemptsFailed(e)
            /\ e.fn \in Fetchers
            /\ e.cachedData # Undefined
            /\ e.result = Fulfilled(e.cachedData.data)
            /\ Namespace(e.fn)[key] = e.cachedData
            /\ PersistedNamespace(e.fn)[key] = e.cachedData
            /\ c.fn = e.fn
            /\ c.normalizedLocation = e.normalizedLocation
            /\ e.id \in c.after
            /\ c.cachedData = e.cachedData
            /\ c.pc = "fetch"
            /\ c.fetches = 1

\* the other of the two fetchers
OtherFetcher(fn) ==
    IF fn = "getCurrentWeather" THEN "getWeatherForecast" ELSE "getCurrentWeather"

\* the persisted item of the namespace of the fetcher fn
PersistedItem(storage, fn) ==
    IF fn = "getCurrentWeather"
    THEN storage.weatherCache_current ELSE storage.weatherCache_forecast

\* C30: a step of a getCurrentWeather call leaves the forecast namespace, in
\* memory and persisted, as it was, and a step of a getWeatherForecast call
\* leaves the current namespace as it was; and a call that begins is served
\* from, or falls back on, the entry of its key in its own namespace only:
\* with no such entry it goes to the network, whatever the other namespace
\* holds for the key.
C30_NamespaceIsolation ==
    [][ \A t \in Slots :
          LET b == calls[t]
              c == calls'[t]
              fn == IF c.fn \in Fetchers THEN c.fn ELSE b.fn
              other == OtherFetcher(fn)
              otherBefore == IF other = "getCurrentWeather"
                             THEN weatherCache.current ELSE weatherCache.forecast
              otherAfter == IF other = "getCurrentWeather"
                            THEN weatherCache'.current ELSE weatherCache'.forecast
          IN  (c # b /\ fn \in Fetchers) =>
                /\ otherAfter = otherBefore
                /\ PersistedItem(sessionStorage', other) = PersistedItem(sessionStorage, other)
                /\ (b.pc = "idle" /\ ByName(c)) =>
                      /\ c.cachedData = Lookup(Namespace(fn), c.normalizedLocation.str)
                      /\ c.normalizedLocation.str \notin DOMAIN Namespace(fn) =>
                            /\ c.cachedData = Undefined
                            /\ c.pc = "fetch"
                            /\ c.fetches = 1 ]_vars

\* current weather was fetched for a place a moment ago; the forecast call
\* for the same key that follows finds nothing in its namespace and is at
\* the network
C30_Witness ==
    \E t \in Slots, u \in Slots :
        LET c == calls[t]
            e == calls[u]
            key == e.normalizedLocation.str
        IN  /\ e.fn = "getCurrentWeather"
            /\ WroteBefore(e, c)
            /\ key \in DOMAIN weatherCache.current
            /\ weatherCache.current[key].timestamp = now
            /\ c.fn = "getWeatherForecast"
            /\ c.normalizedLocation = e.normalizedLocation
            /\ c.startedAt = now
            /\ c.cachedData = Undefined
            /\ c.pc = "fetch"
            /\ weatherCache.forecast = EmptyMap
            /\ sessionStorage.weatherCache_forecast = Null

\* C31: a call that begins on a cache miss issues a network call of its own,
\* also while another call for the same key is at the network; the step in
\* which a fetch is answered with data leaves under its key the entry of
\* that answer, stamped with the time of the answer, whichever call began
\* first; and no step lowers the timestamp of a key's entry.
C31_NoDeduplication ==
    [][ /\ \A t \in Slots :
              LET b == calls[t]
                  c == calls'[t]
                  new == IF c.fn = "getCurrentWeather"
                         THEN weatherCache'.current ELSE weatherCache'.forecast
              IN  /\ (b.pc = "idle" /\ ByName(c) /\ Missed(c)) =>
                        /\ c.pc = "fetch"
                        /\ c.fetches = 1
                        /\ c.apiUrl.by = "name"
                        /\ c.apiUrl.q = encodeURIComponent(c.normalizedLocation.str)
                  /\ (/\ b.pc = "fetch"
                      /\ b.fn \in Fetchers
                      /\ c.pc = "settled"
                      /\ c.fetches > c.failures) =>
                        /\ c.normalizedLocation.str \in DOMAIN new
                        /\ new[c.normalizedLocation.str].timestamp = now'
                        /\ new[c.normalizedLocation.str].data = c.result.value
        /\ \A key \in DOMAIN weatherCache.current :
              weatherCache'.current[key].timestamp >= weatherCache.current[key].timestamp
        /\ \A key \in DOMAIN weatherCache.forecast :
              weatherCache'.forecast[key].timestamp >= weatherCache.forecast[key].timestamp ]_vars

\* two calls for one key were at the network together, each with a call of
\* its own, and got different data; the entry is the one of the call begun
\* first, answered last and after time had passed
C31_Witness ==
    LET first == calls["t1"]
        second == calls["t2"]
        key == first.normalizedLocation.str
    IN  /\ first.fn = "getCurrentWeather" /\ second.fn = "getCurrentWeather"
        /\ ByName(first) /\ ByName(second)
        /\ first.id = 1 /\ second.id = 2
        /\ first.after = {} /\ second.after = {}
        /\ first.normalizedLocation = second.normalizedLocation
        /\ first.pc = "settled" /\ second.pc = "settled"
        /\ first.fetches = 1 /\ first.failures = 0
        /\ second.fetches = 1 /\ second.failures = 0
        /\ first.result.value # second.result.value
        /\ weatherCache.current[key].data = first.result.value
        /\ weatherCache.current[key].timestamp = now
        /\ weatherCache.current[key].timestamp > first.startedAt

\* the key of the call has an entry now that is not the one the call found
EntryChangedSince(c) ==
    /\ c.normalizedLocation.str \in DOMAIN Namespace(c.fn)
    /\ Namespace(c.fn)[c.normalizedLocation.str] # c.cachedData

\* C32: a fetcher call whose attempts all failed ends in what it read from
\* the cache when it began, whatever the cache holds for its key by then:
\* without an entry at its start it returns the error of its last attempt,
\* and with an expired entry at its start it returns that entry's data.
C32_FallbackSnapshot ==
    \A t \in Slots :
        LET c == calls[t]
        IN  (c.fn \in Fetchers /\ AllAttemptsFailed(c)) =>
              IF c.cachedData = Undefined
              THEN /\ c.result = Fulfilled(ErrorShaped(c.thrown.message))
                   /\ EntryChangedSince(c) =>
                         c.result # Fulfilled(Namespace(c.fn)[c.normalizedLocation.str].data)
              ELSE c.result = Fulfilled(c.cachedData.data)

\* a call began with no entry for its key; while it was at the network
\* another call wrote one; the first call's fetch then failed and it
\* returned the error, not the entry's data
C32_Witness ==
    \E t \in Slots, u \in Slots :
        LET c == calls[t]
            e == calls[u]
        IN  /\ c.fn \in Fetchers
            /\ AllAttemptsFailed(c)
            /\ c.cachedData = Undefined
            /\ e.fn = c.fn
            /\ e.normalizedLocation = c.normalizedLocation
            /\ e.pc = "settled"
            /\ e.fetches > e.failures
            /\ e.id \notin c.after
            /\ c.id < e.id
            /\ EntryChangedSince(c)
            /\ Namespace(c.fn)[c.normalizedLocation.str].timestamp < now
            /\ IsErrorShaped(c.result.value)

\* a call began with an expired entry, a newer one was written while it was
\* at the network, and it returned the old entry's data
C32_WitnessExpired ==
    \E t \in Slots, u \in Slots :
        LET c == calls[t]
            e == calls[u]
        IN  /\ c.fn \in Fetchers
            /\ AllAttemptsFailed(c)
            /\ c.cachedData # Undefined
            /\ e.fn = c.fn
            /\ e.normalizedLocation = c.normalizedLocation
            /\ e.pc = "settled"
            /\ e.fetches > e.failures
            /\ e.id \notin c.after
            /\ EntryChangedSince(c)
            /\ Namespace(c.fn)[c.normalizedLocation.str].timestamp > c.cachedData.timestamp
            /\ c.result = Fulfilled(c.cachedData.data)

\* C33: with retry, an answer of 404 or 401 to the first or second attempt
\* is followed by a backoff wait, and the timer's firing by a new network
\* call, whatever the cache holds for the key by then; a call that was
\* answered 404 or 401 every time made exactly 3 network calls, waited 1000
\* ms and 2000 ms, and, having found no entry at its start, returns the
\* not-found or the invalid-key error.
C33_RetriesEveryKind ==
    [][ \A t \in Slots :
          LET b == calls[t]
              c == calls'[t]
          IN  /\ (/\ b.pc = "fetch"
                  /\ b.fn \in Fetchers
                  /\ b.useRetry
                  /\ c.failures = b.failures + 1
                  /\ b.attempt < 3) =>
                    /\ c.pc = "backoff"
                    /\ c.result = Undefined
                    /\ c.wakeAt = now + (IF b.attempt = 1 THEN 1000 ELSE 2000)
              /\ (b.pc = "backoff" /\ c # b) =>
                    /\ c.pc = "fetch"
                    /\ c.fetches = b.fetches + 1
                    /\ c.cachedData = b.cachedData
              /\ (c.fn \in Fetchers /\ c.useRetry /\ AllAttemptsFailed(c)) =>
                    /\ c.fetches = 3
                    /\ c.waits = <<1000, 2000>>
                    /\ c.response.status \in {401, 404}
                    /\ c.cachedData = Undefined =>
                          /\ IsErrorShaped(c.result.value)
                          /\ IF c.response.status = 404
                             THEN Includes(c.result.value.error.str, <<"not", "found">>)
                             ELSE c.result.value.error.str = <<"Invalid", "API", "key">> ]_vars

\* three 404 answers, waits of 1000 and 2000 ms, and the not-found error,
\* although the key has had a fresh entry since before the third attempt
C33_Witness ==
    \E t \in Slots :
        LET c == calls[t]
            key == c.normalizedLocation.str
        IN  /\ c.fn \in Fetchers
            /\ c.useRetry
            /\ AllAttemptsFailed(c)
            /\ c.fetches = 3
            /\ c.waits = <<1000, 2000>>
            /\ c.response.status = 404
            /\ c.cachedData = Undefined
            /\ Includes(c.result.value.error.str, <<"not", "found">>)
            /\ now = c.startedAt + 3000
            /\ key \in DOMAIN Namespace(c.fn)
            /\ Namespace(c.fn)[key].timestamp < now

\* C34: getWeatherData called with an empty or absent location settles at
\* once with {current: null, forecast: null, error: null}: neither fetcher
\* issues a network call and findNearbyCities is not called.
C34_EmptyLocationSilent ==
    (gwd.pc # "idle" /\ gwd.location \in {Undefined, Null, Str(<<>>)}) =>
        /\ gwd.pc = "settled"
        /\ gwd.result = [type |-> "object", current |-> Null, forecast |-> Null,
                         alternatives |-> Undefined, error |-> Null]
        /\ gwd.geoCalls = 0
        /\ gwd.geoResponse = Undefined
        /\ \A t \in Slots : calls[t].fetches = 0 /\ calls[t].pc = "settled"

\* getWeatherData("") has returned three nulls without a network call
C34_Witness ==
    /\ gwd.pc = "settled"
    /\ gwd.location = Str(<<>>)
    /\ gwd.result.current = Null
    /\ gwd.result.forecast = Null
    /\ gwd.result.error = Null
    /\ gwd.geoCalls = 0
    /\ \A t \in Slots : calls[t].fetches = 0

\* the same for getWeatherData(undefined)
C34_WitnessAbsent ==
    /\ gwd.pc = "settled"
    /\ gwd.location = Undefined
    /\ gwd.result.error = Null
    /\ \A t \in Slots : calls[t].fetches = 0

\* C35: a 2xx forecast answer whose body has no sample list, or one that is
\* no list, is a success: the call returns the empty summary and writes it
\* to the forecast cache with the time of the answer; while that entry is
\* younger than 30 minutes a forecast call for the key returns it without
\* a network call; getWeatherData reports the empty forecast with error null.
C35_ListlessIsSuccess ==
    [][ /\ \A t \in Slots :
             LET b == calls[t]
                 c == calls'[t]
                 key == c.normalizedLocation.str
             IN  /\ (/\ b.pc = "fetch"
                     /\ b.fn = "getWeatherForecast"
                     /\ c # b
                     /\ c.response # Undefined
                     /\ c.response.kind = "http"
                     /\ c.response.ok
                     /\ c.response.json # Undefined
                     /\ ~HasSampleList(c.response.json)) =>
                       /\ c.pc = "settled"
                       /\ c.result = Fulfilled(Array(<<>>))
                       /\ c.failures = b.failures
                       /\ key \in DOMAIN weatherCache'.forecast
                       /\ weatherCache'.forecast[key] =
                            [timestamp |-> now, data |-> Array(<<>>),
                             rawData |-> c.response.json]
                 /\ (/\ b.pc = "idle"
                     /\ c.fn = "getWeatherForecast"
                     /\ c.normalizedLocation # Undefined
                     /\ key \in DOMAIN weatherCache.forecast
                     /\ weatherCache.forecast[key].data = Array(<<>>)
                     /\ now - weatherCache.forecast[key].timestamp < 1800000) =>
                       /\ c.pc = "settled"
                       /\ c.result = Fulfilled(Array(<<>>))
                       /\ c.fetches = 0
        /\ (gwd'.pc = "settled" /\ gwd'.forecast = Array(<<>>)) =>
              /\ gwd'.result.forecast = Array(<<>>)
              /\ gwd'.result.error = Null ]_vars

\* a forecast call is served, without a network call, the empty summary
\* that a body without a valid sample list left in the cache 30 minutes
\* less 1 ms earlier
C35_Witness ==
    \E t \in Slots :
        LET c == calls[t]
            key == c.normalizedLocation.str
        IN  /\ c.fn = "getWeatherForecast"
            /\ c.pc = "settled"
            /\ c.fetches = 0
            /\ c.result = Fulfilled(Array(<<>>))
            /\ key \in DOMAIN weatherCache.forecast
            /\ ~HasSampleList(weatherCache.forecast[key].rawData)
            /\ now - weatherCache.forecast[key].timestamp = 1800000 - 1

\* getWeatherData reports the empty summary of a body just fetched
C35_WitnessReported ==
    /\ gwd.pc = "settled"
    /\ calls["t2"].fetches > 0
    /\ calls["t2"].response.ok
    /\ ~HasSampleList(calls["t2"].response.json)
    /\ gwd.result.forecast = Array(<<>>)
    /\ gwd.result.error = Null
    /\ weatherCache.forecast[<<"p">>].timestamp = now

\* C36: when every request is answered and every timer fires, a call of
\* getWeatherData ends, and it ends with an object of current, forecast and
\* error, never with a rejection; by then, and ever after, its two fetchers
\* have issued at most 3 requests each and findNearbyCities at most 1; when
\* a fetcher rejects, the result is {current: null, forecast: null, error:
\* the message of the rejection}.
C36_Terminates ==
    /\ [](/\ gwd.pc \in {"idle", "join", "geo", "settled"}
          /\ gwd.geoCalls <= 1
          /\ \A t \in Slots : calls[t].fetches <= 3
          /\ gwd.pc = "settled" =>
                /\ gwd.result.type = "object"
                /\ {"current", "forecast", "error"} \subseteq DOMAIN gwd.result
                /\ (\E t \in Slots : /\ calls[t].pc = "settled"
                                     /\ calls[t].result.state = "rejected") =>
                      \E t \in Slots :
                          /\ calls[t].pc = "settled"
                          /\ calls[t].result.state = "rejected"
                          /\ gwd.result = [type |-> "object", current |-> Null,
                                           forecast |-> Null, alternatives |-> Undefined,
                                           error |-> Str(calls[t].result.reason.message)])
    /\ (gwd.pc \in {"join", "geo"}) ~> (gwd.pc = "settled")

\* getWeatherData has ended after 3 current-weather requests, 3 forecast
\* requests and 1 geocoding request
C36_Witness ==
    /\ gwd.pc = "settled"
    /\ gwd.geoCalls = 1
    /\ calls["t1"].fetches = 3
    /\ calls["t2"].fetches = 3
    /\ gwd.result.error # Null

\* getWeatherData has ended with the message of a fetcher's rejection
C36_WitnessCaught ==
    /\ gwd.pc = "settled"
    /\ calls["t1"].pc = "settled"
    /\ calls["t1"].result.state = "rejected"
    /\ gwd.result.error = Str(calls["t1"].result.reason.message)

\* every probability of the samples is absent or between 0 and 1
ProbabilitiesInRange(samples) ==
    \A i \in 1..Len(samples) :
        samples[i].pop = Undefined \/ (0 <= samples[i].pop.num /\ samples[i].pop.num <= 1000)

\* C37: every daily summary has low <= high; its precipitation is between
\* 0 and 100 when every sample probability of the day is between 0 and 1;
\* every bucket of the grouping holds at least one sample, namely the
\* samples of its day, and every summary is of a day that has a sample.
C37_SummaryRanges ==
    \A t \in Slots :
        LET c == calls[t]
        IN  (Aggregated(c) /\ HasSampleList(c.response.json)) =>
                LET items == c.response.json.list.items
                    buckets == GroupByDay(items, <<>>)
                IN  /\ \A k \in 1..Len(c.result.value.items) :
                         LET summary == c.result.value.items[k]
                             samples == SamplesOfDay(items, summary.date)
                         IN  /\ Len(samples) >= 1
                             /\ summary.low <= summary.high
                             /\ ProbabilitiesInRange(samples) =>
                                   (0 <= summary.precipitation /\ summary.precipitation <= 100)
                    /\ \A j \in 1..Len(buckets) :
                         /\ Len(buckets[j].temps) >= 1
                         /\ Len(buckets[j].temps) = Len(SamplesOfDay(items, buckets[j].date))
                         /\ Len(buckets[j].precipitation) = Len(buckets[j].temps)
                         /\ Len(buckets[j].winds) = Len(buckets[j].temps)

\* a day of several samples with low below high and a precipitation
\* strictly between 0 and 100
C37_Witness ==
    \E t \in Slots :
        LET c == calls[t]
        IN  /\ Aggregated(c)
            /\ HasSampleList(c.response.json)
            /\ Len(c.response.json.list.items) >= 3
            /\ ProbabilitiesInRange(c.response.json.list.items)
            /\ Len(c.result.value.items) = 1
            /\ c.result.value.items[1].low < c.result.value.items[1].high
            /\ c.result.value.items[1].precipitation > 0
            /\ c.result.value.items[1].precipitation < 100

\* a probability of 1.2 gives a precipitation of 120
C37_WitnessOutOfRange ==
    \E t \in Slots :
        LET c == calls[t]
        IN  /\ Aggregated(c)
            /\ HasSampleList(c.response.json)
            /\ ~ProbabilitiesInRange(c.response.json.list.items)
            /\ Len(c.result.value.items) = 1
            /\ c.result.value.items[1].precipitation = 120

\* C38: a reload between two operations, in a session where every
\* persisted write succeeded, leaves the in-memory mappings of both
\* namespaces as they were before it: same keys, timestamps and data.
C38_ReloadRoundTrip ==
    [][ (ticks' = ticks + 1 /\ now' = now) => weatherCache' = weatherCache ]_vars

\* after a reload, a forecast call goes to the network for a key whose
\* entry was fetched and persisted in this very millisecond
C38_MissAfterReload ==
    \E t \in Slots :
        LET c == calls[t]
        IN  /\ ticks >= 1
            /\ now = 0
            /\ c.fn = "getWeatherForecast"
            /\ c.pc = "fetch"
            /\ sessionStorage.weatherCache_forecast # Null
            /\ sessionStorage.weatherCache_forecast.wellFormed
            /\ c.normalizedLocation.str \in DOMAIN sessionStorage.weatherCache_forecast.value
            /\ sessionStorage.weatherCache_forecast.value[c.normalizedLocation.str].rawData
                 # StoredPayload

\* the session began with both items absent or well-formed
C38_CleanStartup ==
    \/ ops > 0
    \/ /\ sessionStorage.weatherCache_current \in {Null, Stringify(StoredCurrent)}
       /\ sessionStorage.weatherCache_forecast \in {Null, Stringify(StoredForecast)}

====
